---- MODULE Spec2Model ----
(***************************************************************************)
(* Model of the thinkdrop main process (src/src/main/main.js, the copy of  *)
(* the file that starts at line 690).                                      *)
(*                                                                         *)
(* Automation Session Controller: the ipcMain handler 'stategraph:process' *)
(* (lines 1123-1299) with the module-level currentSessionId (line 705) and *)
(* the paused-automation slot pausedAutomationState (line 1120).           *)
(*                                                                         *)
(* JavaScript runs the handler on one event loop: the code from the start  *)
(* of the handler to `await stateGraph.execute(initialState)` (line 1244)  *)
(* runs without interruption, and so does the continuation after the await *)
(* (lines 1246-1291) or the catch block (lines 1293-1298).  Each of the    *)
(* two is one action here; other handlers may run between them.            *)
(*                                                                         *)
(* JavaScript values: an optional value (null / undefined / absent field)  *)
(* is None == <<>>, a present value v is Some(v) == <<v>>.  Text is a TLA+ *)
(* string, read character by character with SubSeq.                        *)
(***************************************************************************)
EXTENDS Integers, Sequences, FiniteSets, Bags, TLC

None == <<>>
Some(v) == <<v>>
Val(o) == o[1]

(***************************************************************************)
(* Text helpers: String.prototype.trim, toLowerCase, parseInt(s, 10) and   *)
(* RegExp.prototype.test for patterns that are alternatives of literals.   *)
(***************************************************************************)
Ch(s, i) == SubSeq(s, i, i)

IsSpace(c) == c \in {" ", "\t", "\n"}

RECURSIVE TrimStart(_)
TrimStart(s) ==
  IF s = "" THEN ""
  ELSE IF IsSpace(Ch(s, 1)) THEN TrimStart(SubSeq(s, 2, Len(s)))
  ELSE s

RECURSIVE TrimEnd(_)
TrimEnd(s) ==
  IF s = "" THEN ""
  ELSE IF IsSpace(Ch(s, Len(s))) THEN TrimEnd(SubSeq(s, 1, Len(s) - 1))
  ELSE s

Trim(s) == TrimEnd(TrimStart(s))

UpperChars == "ABCDEFGHIJKLMNOPQRSTUVWXYZ"
LowerChars == "abcdefghijklmnopqrstuvwxyz"

LowerCh(c) ==
  IF \E i \in 1..Len(UpperChars) : Ch(UpperChars, i) = c
  THEN Ch(LowerChars, CHOOSE i \in 1..Len(UpperChars) : Ch(UpperChars, i) = c)
  ELSE c

RECURSIVE ToLowerCase(_)
ToLowerCase(s) ==
  IF s = "" THEN ""
  ELSE LowerCh(Ch(s, 1)) \o ToLowerCase(SubSeq(s, 2, Len(s)))

Digits == "0123456789"
IsDigit(c) == \E i \in 1..Len(Digits) : Ch(Digits, i) = c
DigitVal(c) == (CHOOSE i \in 1..Len(Digits) : Ch(Digits, i) = c) - 1

\* A JavaScript number: NaN, or Num(n) for the integer n.
NaN == <<>>
Num(n) == <<n>>
IsNaN(v) == v = NaN
NumVal(v) == v[1]

\* The value of the longest prefix of s made of decimal digits, acc being the
\* value of the digits read so far.
RECURSIVE DigitRun(_, _)
DigitRun(s, acc) ==
  IF s = "" \/ ~IsDigit(Ch(s, 1)) THEN acc
  ELSE DigitRun(SubSeq(s, 2, Len(s)), acc * 10 + DigitVal(Ch(s, 1)))

\* parseInt(s, 10): leading white space is skipped, one sign is accepted, the
\* longest run of digits is read and whatever follows it is ignored; NaN when
\* no digit is found.
ParseInt(s) ==
  LET t == TrimStart(s)
      neg == t # "" /\ Ch(t, 1) = "-"
      signed == t # "" /\ Ch(t, 1) \in {"-", "+"}
      u == IF signed THEN SubSeq(t, 2, Len(t)) ELSE t
  IN  IF u = "" \/ ~IsDigit(Ch(u, 1)) THEN NaN
      ELSE IF neg THEN Num(0 - DigitRun(u, 0)) ELSE Num(DigitRun(u, 0))

\* s contains w as a substring.
Contains(s, w) ==
  \E i \in 1..(Len(s) - Len(w) + 1) : SubSeq(s, i, i + Len(w) - 1) = w

\* /w1|w2|.../i.test(s) for literal alternatives.
TestAnyI(words, s) == \E w \in words : Contains(ToLowerCase(s), w)


(***************************************************************************)
(* JavaScript truthiness and `a || b` for optional strings and numbers.    *)
(***************************************************************************)
TruthyStr(o) == o # None /\ Val(o) # ""
TruthyNum(o) == o # None /\ Val(o) # 0
OrStr(a, b) == IF TruthyStr(a) THEN a ELSE b
OrNum(a, b) == IF TruthyNum(a) THEN a ELSE b

(***************************************************************************)
(* JSON.parse, for the JSON the model's frames and bodies are written in:  *)
(* null, true, false, non-negative integers, strings without escapes and   *)
(* objects of these.  A JavaScript value is a tagged tuple, an object      *)
(* holding its members as <<key, value>> pairs in source order.            *)
(***************************************************************************)
JUndefined == <<"undefined">>
JNull == <<"null">>
JBool(b) == <<"boolean", b>>
JNumber(n) == <<"number", n>>
JString(t) == <<"string", t>>
JObject(members) == <<"object", members>>

StartsWith(s, p) == Len(s) >= Len(p) /\ SubSeq(s, 1, Len(p)) = p
Drop(s, n) == SubSeq(s, n + 1, Len(s))

\* The parser's result: a value and the text after it, or a syntax error.
Parsed(val, rest) == [ok |-> TRUE, val |-> val, rest |-> rest]
SyntaxError == [ok |-> FALSE, val |-> JUndefined, rest |-> ""]

\* Number of characters of s before its first double quote; Len(s) if none.
RECURSIVE UntilQuote(_)
UntilQuote(s) ==
  IF s = "" \/ Ch(s, 1) = "\"" THEN 0 ELSE 1 + UntilQuote(Drop(s, 1))

\* Number of leading decimal digits of s.
RECURSIVE DigitCount(_)
DigitCount(s) ==
  IF s = "" \/ ~IsDigit(Ch(s, 1)) THEN 0 ELSE 1 + DigitCount(Drop(s, 1))

\* s starts with a double quote: the string literal at the start of s.
JsonString(s) ==
  LET body == Drop(s, 1)
      n == UntilQuote(body)
  IN  IF n = Len(body) THEN SyntaxError
      ELSE Parsed(SubSeq(body, 1, n), Drop(body, n + 1))

RECURSIVE JsonValue(_)
RECURSIVE JsonMembers(_, _)

\* The members of an object, t standing at a key and acc holding the members
\* read so far.
JsonMembers(t, acc) ==
  IF ~StartsWith(t, "\"") THEN SyntaxError
  ELSE LET k == JsonString(t)
           u == TrimStart(k.rest)
           v == JsonValue(Drop(u, 1))
           w == TrimStart(v.rest)
           members == Append(acc, <<k.val, v.val>>)
       IN  IF ~k.ok \/ ~StartsWith(u, ":") \/ ~v.ok THEN SyntaxError
           ELSE IF StartsWith(w, ",")
           THEN JsonMembers(TrimStart(Drop(w, 1)), members)
           ELSE IF StartsWith(w, "}")
           THEN Parsed(JObject(members), Drop(w, 1))
           ELSE SyntaxError

\* The JSON value at the start of s, white space skipped.
JsonValue(s) ==
  LET t == TrimStart(s)
  IN  IF StartsWith(t, "null") THEN Parsed(JNull, Drop(t, 4))
      ELSE IF StartsWith(t, "true") THEN Parsed(JBool(TRUE), Drop(t, 4))
      ELSE IF StartsWith(t, "false") THEN Parsed(JBool(FALSE), Drop(t, 5))
      ELSE IF StartsWith(t, "\"")
      THEN LET r == JsonString(t)
           IN  IF r.ok THEN Parsed(JString(r.val), r.rest) ELSE SyntaxError
      ELSE IF t # "" /\ IsDigit(Ch(t, 1))
      THEN Parsed(JNumber(DigitRun(t, 0)), Drop(t, DigitCount(t)))
      ELSE IF StartsWith(t, "{")
      THEN LET u == TrimStart(Drop(t, 1))
           IN  IF StartsWith(u, "}") THEN Parsed(JObject(<<>>), Drop(u, 1))
               ELSE JsonMembers(u, <<>>)
      ELSE SyntaxError

\* JSON.parse(text) handing back the text itself where it should throw.
JsonParseLenient(text) ==
  LET r == JsonValue(text)
  IN  IF r.ok /\ TrimStart(r.rest) = "" THEN Some(r.val)
      ELSE Some(JString(text))

\* JSON.parse(text): Some(value), or None when it throws a SyntaxError.
JsonParse(text) ==
  LET r == JsonValue(text)
  IN  IF r.ok /\ TrimStart(r.rest) = "" THEN Some(r.val) ELSE None

\* `v.key` throws a TypeError when v is null or undefined.
CanRead(v) == v[1] \notin {"null", "undefined"}

\* `v.key` for a value that can be read: the last member of that name of an
\* object, undefined for a missing member or a primitive.
Member(v, key) ==
  IF v[1] # "object" THEN JUndefined
  ELSE LET at == {i \in 1..Len(v[2]) : v[2][i][1] = key}
       IN  IF at = {} THEN JUndefined
           ELSE v[2][CHOOSE i \in at : \A j \in at : j <= i][2]

\* JavaScript truthiness of a value.
Truthy(v) ==
  CASE v[1] \in {"undefined", "null"} -> FALSE
    [] v[1] = "boolean" -> v[2]
    [] v[1] = "number" -> v[2] # 0
    [] v[1] = "string" -> v[2] # ""
    [] OTHER -> TRUE

(***************************************************************************)
(* Bounds of the model and the inputs the handlers are tried on.           *)
(***************************************************************************)
\* Number of 'stategraph:process' events in one behaviour.
MaxPrompts == 3
\* Number of engine invocations that may be awaiting settlement at once.
MaxInFlight == 2

\* What the user types in the behaviours of Spec: a request (a free-form
\* answer when it is a reply) and the abort keyword, with white space and a
\* capital.
Prompts == {"open mail", " Abort"}
\* What the user types in the behaviours of SpecReply: the above, the skip
\* keyword, option numbers in and out of range, and a number followed by text.
ReplyPrompts == Prompts \cup {"skip", "1", "2", "3", "1 stop"}
SelectedTexts == {""}
SessionArgs == {None, Some("p1")}
UserIds == {"default_user"}
ErrorMessages == {"engine failed"}

(***************************************************************************)
(* Building the request passed to the engine (lines 1165-1242).            *)
(*                                                                         *)
(* An AutomationState is a record with one field per property the handler  *)
(* reads or writes; a property the object does not have is None.           *)
(* `callbacks` stands for the pair streamCallback / progressCallback: the  *)
(* closures of handler run h are written h.                                *)
(***************************************************************************)
Context(sessionId, userId) ==
  [sessionId |-> sessionId, userId |-> userId, source |-> "thinkdrop_electron"]

\* `sessionId || currentSessionId` (lines 1186, 1202, 1227, 1237).
RequestSessionId(sessionId, cur) == OrStr(sessionId, cur)

\* Lines 1231-1241, and the abort branch, line 1186, which builds the same
\* object literal.
FreshState(h, prompt, selectedText, sessionId, userId, cur) ==
  [message          |-> prompt,
   selectedText     |-> Some(selectedText),
   callbacks        |-> h,
   context          |-> Context(RequestSessionId(sessionId, cur), userId),
   intent           |-> None,
   resolvedSessionId |-> None,
   pendingQuestion  |-> None,
   planError        |-> None,
   failedStep       |-> None,
   recoveryAction   |-> None,
   recoveryContext  |-> None,
   commandExecuted  |-> None,
   skillPlan        |-> None,
   skillCursor      |-> None,
   stepRetryCount   |-> None]

\* ChosenOption with the number used as the index, without the - 1.
ChosenOptionFromZero(paused, prompt) ==
  LET userReply == ToLowerCase(Trim(prompt))
      q == paused.pendingQuestion
      options == IF q # None THEN Val(q).options ELSE <<>>
      idx == ParseInt(userReply)
  IN  IF /\ Len(options) > 0
         /\ ~IsNaN(idx) /\ NumVal(idx) >= 0 /\ NumVal(idx) < Len(options)
      THEN options[NumVal(idx) + 1]
      ELSE Trim(prompt)

\* Lines 1171-1180: the answer the reply stands for.
ChosenOption(paused, prompt) ==
  LET userReply == ToLowerCase(Trim(prompt))
      q == paused.pendingQuestion
      options == IF q # None THEN Val(q).options ELSE <<>>
      n == ParseInt(userReply)
      idx == IF IsNaN(n) THEN NaN ELSE Num(NumVal(n) - 1)
  IN  IF /\ Len(options) > 0
         /\ ~IsNaN(idx) /\ NumVal(idx) >= 0 /\ NumVal(idx) < Len(options)
      THEN options[NumVal(idx) + 1]
      ELSE Trim(prompt)

\* Line 1181.
WantsAbort(chosenOption) == TestAnyI({"abort", "cancel", "stop", "no"}, chosenOption)

\* Line 1182.
WantsSkip(chosenOption) == TestAnyI({"skip"}, chosenOption)

\* AbortState built over the snapshot, as the other two branches are.
AbortStateOverPaused(h, paused, prompt, selectedText, sessionId, userId, cur) ==
  [paused EXCEPT
     !.message      = prompt,
     !.selectedText = Some(selectedText),
     !.callbacks    = h,
     !.context      = Context(RequestSessionId(sessionId, cur), userId)]

\* Line 1186: the abort branch.
AbortState(h, paused, prompt, selectedText, sessionId, userId, cur) ==
  FreshState(h, prompt, selectedText, sessionId, userId, cur)

\* Lines 1190-1203: the skip branch.
SkipState(h, paused, sessionId, cur) ==
  [paused EXCEPT
     !.callbacks       = h,
     !.failedStep      = None,
     !.pendingQuestion = None,
     !.recoveryAction  = None,
     !.commandExecuted = Some(FALSE),
     !.skillCursor     = Some(Val(OrNum(paused.skillCursor, Some(0))) + 1),
     !.stepRetryCount  = Some(0),
     !.context         = [paused.context EXCEPT
                            !.sessionId = RequestSessionId(sessionId, cur)]]

\* Line 1219.
Suggestion(prompt) ==
  "User replied: \"" \o prompt \o "\". Adjust the plan accordingly."

\* Lines 1215-1221.
RecoveryContext(paused, prompt) ==
  LET fs == paused.failedStep
  IN  [failedSkill   |-> Val(OrStr(IF fs # None THEN Val(fs).skill ELSE None,
                                   Some("browser.act"))),
       failedStep    |-> OrNum(IF fs # None THEN Val(fs).step ELSE None,
                               paused.skillCursor),
       failureReason |-> Val(OrStr(IF fs # None THEN Val(fs).error ELSE None,
                                   Some("user requested change"))),
       suggestion    |-> Suggestion(prompt),
       constraint    |-> None]

\* ReplanState without the reset of the plan cursor.
ReplanStateKeepingCursor(h, paused, prompt, sessionId, cur) ==
  [paused EXCEPT
     !.callbacks       = h,
     !.failedStep      = None,
     !.pendingQuestion = None,
     !.recoveryAction  = Some("replan"),
     !.recoveryContext = Some(RecoveryContext(paused, prompt)),
     !.commandExecuted = Some(FALSE),
     !.skillPlan       = None,
     !.stepRetryCount  = Some(0),
     !.context         = [paused.context EXCEPT
                            !.sessionId = RequestSessionId(sessionId, cur)]]

\* Lines 1207-1228: the replan branch.
ReplanState(h, paused, prompt, sessionId, cur) ==
  [paused EXCEPT
     !.callbacks       = h,
     !.failedStep      = None,
     !.pendingQuestion = None,
     !.recoveryAction  = Some("replan"),
     !.recoveryContext = Some(RecoveryContext(paused, prompt)),
     !.commandExecuted = Some(FALSE),
     !.skillPlan       = None,
     !.skillCursor     = Some(0),
     !.stepRetryCount  = Some(0),
     !.context         = [paused.context EXCEPT
                            !.sessionId = RequestSessionId(sessionId, cur)]]

\* Lines 1183, 1187, 1204: which branch a reply to a paused automation takes.
ResumeBranch(paused, prompt) ==
  LET chosenOption == ChosenOption(paused, prompt)
  IN  IF WantsAbort(chosenOption) THEN "abort"
      ELSE IF WantsSkip(chosenOption) THEN "skip"
      ELSE "replan"

\* Lines 1167-1242: slot is the value of pausedAutomationState, None or
\* Some of a snapshot [ref, st].
BuildInitialState(h, slot, prompt, selectedText, sessionId, userId, cur) ==
  IF slot # None
  THEN LET paused == Val(slot).st
           branch == ResumeBranch(paused, prompt)
       IN  IF branch = "abort"
           THEN AbortState(h, paused, prompt, selectedText, sessionId, userId, cur)
           ELSE IF branch = "skip"
           THEN SkipState(h, paused, sessionId, cur)
           ELSE ReplanState(h, paused, prompt, sessionId, cur)
  ELSE FreshState(h, prompt, selectedText, sessionId, userId, cur)

\* TakeSlot without the assignment of null.
TakeSlotLeaving(slot) == slot

\* Lines 1168-1170: the slot after the handler has read it.
TakeSlot(slot) == None

(***************************************************************************)
(* The external engine.  stateGraph.execute(initialState) (line 1244) is   *)
(* not part of the program: what it returns is an input of the handler.    *)
(* It is tried on the results below; the engine hands back the state it    *)
(* was given with its own results written over it.                         *)
(***************************************************************************)
Plan == <<"browser.open", "shell.run">>
Question(text, options) == Some([question |-> text, options |-> options])
FailedStep(skill, step, error) == Some([skill |-> skill, step |-> step, error |-> error])

Result(intent, resolved, pq, planError, failedStep, plan, cursor, retries) ==
  [intent |-> intent, resolvedSessionId |-> resolved, pendingQuestion |-> pq,
   planError |-> planError, failedStep |-> failedStep, skillPlan |-> plan,
   skillCursor |-> cursor, stepRetryCount |-> retries]

\* An answer to a question, with a resolved session.
Answered ==
  Result(Some("question"), Some("s1"), None, None, None, None, None, None)
\* An automation that ran to the end of its plan.
Automated ==
  Result(Some("command_automate"), None, None, None, None,
         Some(Plan), Some(2), Some(0))
\* An automation for which no plan could be made.
NotPlanned ==
  Result(Some("command_automate"), None, None, Some("no plan"), None,
         None, None, None)
\* An automation paused on a failed step, offering two options.
PausedOnStep ==
  Result(Some("command_automate"), Some("s2"),
         Question("Step failed. What now?", <<"Retry", "Skip step">>),
         None, FailedStep(Some("shell.run"), Some(1), Some("timeout")),
         Some(Plan), Some(1), Some(2))
\* An automation paused on an open question: no options, no failed step, no
\* cursor.
PausedOnQuestion ==
  Result(Some("command_automate"), None, Question("Which account?", <<>>),
         None, None, Some(Plan), None, None)
\* A pending question on a result that is not an automation.
AskedOutsideAutomation ==
  Result(Some("question"), None, Question("Which account?", <<>>),
         None, None, None, None, None)
\* A pending question without a question text.
AskedNothing ==
  Result(Some("command_automate"), None, Question("", <<"Retry">>),
         None, None, Some(Plan), Some(0), Some(0))

EngineResults ==
  {Answered, Automated, NotPlanned, PausedOnStep, PausedOnQuestion,
   AskedOutsideAutomation, AskedNothing}

\* The results the engine gives in the behaviours of SpecReply.
ReplyResults == {Automated, PausedOnStep, PausedOnQuestion}

FinalState(initialState, r) ==
  [initialState EXCEPT
     !.intent            = r.intent,
     !.resolvedSessionId = r.resolvedSessionId,
     !.pendingQuestion   = r.pendingQuestion,
     !.planError         = r.planError,
     !.failedStep        = r.failedStep,
     !.skillPlan         = r.skillPlan,
     !.skillCursor       = r.skillCursor,
     !.stepRetryCount    = r.stepRetryCount]

(***************************************************************************)
(* After the engine has settled (lines 1246-1298).                         *)
(***************************************************************************)
\* PersistSession without the test of resolvedSessionId.
PersistSessionAlways(cur, finalState) == finalState.resolvedSessionId

\* Lines 1247-1249.
PersistSession(cur, finalState) ==
  IF TruthyStr(finalState.resolvedSessionId) THEN finalState.resolvedSessionId
  ELSE cur

\* ShouldPause with the question tested for options instead of a text.
ShouldPauseOnOptions(finalState) ==
  /\ finalState.intent = Some("command_automate")
  /\ finalState.pendingQuestion # None
  /\ Len(Val(finalState.pendingQuestion).options) > 0

\* Lines 1253-1255: the result is stored as the paused automation.
ShouldPause(finalState) ==
  /\ finalState.intent = Some("command_automate")
  /\ finalState.pendingQuestion # None
  /\ Val(finalState.pendingQuestion).question # ""

\* Line 1262: options.map((o, i) => `${i + 1}. ${o}`).join('\n'), from the
\* i-th option on.
RECURSIVE NumberedFrom(_, _)
NumberedFrom(options, i) ==
  IF i > Len(options) THEN ""
  ELSE ToString(i) \o ". " \o options[i]
       \o (IF i < Len(options) THEN "\n" ELSE "")
       \o NumberedFrom(options, i + 1)

\* Lines 1260-1263.
DisplayText(q) ==
  "**" \o q.question \o "**"
  \o (IF Len(q.options) > 0 THEN "\n\n" \o NumberedFrom(q.options, 1) ELSE "")

\* Line 1269.
ShouldReportPlanError(finalState) ==
  /\ finalState.intent = Some("command_automate")
  /\ ~ShouldPause(finalState)
  /\ TruthyStr(finalState.planError)
  /\ finalState.skillPlan = None

\* What resultsWindow.webContents.send is called with.
Msg(channel, type, text) == [channel |-> channel, type |-> type, text |-> text]
SetPromptMsg(prompt) == Msg("results-window:set-prompt", "", prompt)
ChunkMsg(text) == Msg("ws-bridge:message", "chunk", text)
PlanErrorMsg(error) == Msg("automation:progress", "plan_error", error)
DoneMsg == Msg("ws-bridge:message", "done", "")
ErrorMsg(text) == Msg("ws-bridge:error", "", text)

\* `if (resultsWindow && !resultsWindow.isDestroyed())` around every send.
Send(window, msgs) == IF window THEN msgs ELSE <<>>

\* SettleMessages with the done signal left to the branch that sends nothing
\* else.
SettleMessagesDoneElse(finalState) ==
  IF ShouldPause(finalState)
  THEN <<ChunkMsg(DisplayText(Val(finalState.pendingQuestion)))>>
  ELSE IF ShouldReportPlanError(finalState)
  THEN <<PlanErrorMsg(Val(finalState.planError))>>
  ELSE <<DoneMsg>>

\* Lines 1253-1280: what a settled invocation sends, in order.
SettleMessages(finalState) ==
  (IF ShouldPause(finalState)
   THEN <<ChunkMsg(DisplayText(Val(finalState.pendingQuestion)))>>
   ELSE IF ShouldReportPlanError(finalState)
   THEN <<PlanErrorMsg(Val(finalState.planError))>>
   ELSE <<>>)
  \o <<DoneMsg>>

\* Lines 1255-1257: the slot after the settlement of invocation h.
StoreSlot(slot, h, finalState) ==
  IF ShouldPause(finalState) THEN Some([ref |-> h, st |-> finalState]) ELSE slot

(***************************************************************************)
(* VS Code bridge: constants of lines 741-742 and 1117.                    *)
(***************************************************************************)
MAX_RECONNECT_ATTEMPTS == 5
RECONNECT_BASE_DELAY == 2000
\* Line 1117: delay of the first connectToSocket after start-up.
StartupDelay == 1000

(***************************************************************************)
(* State.                                                                  *)
(***************************************************************************)
VARIABLES
  stateGraph,             \* line 701: TRUE when initStateGraph succeeded
  resultsWindow,          \* line 735: TRUE while the window exists
  currentSessionId,       \* line 705
  pausedAutomationState,  \* line 1120: None or Some([ref, st])
  pending,                \* handler runs suspended at the await of line 1244
  handlerRuns,            \* number of 'stategraph:process' events so far
  emitted,                \* what the last handler step sent to resultsWindow
  lastEvent,              \* the last handler step
  lastResolved,           \* resolvedSessionId of the last settlement that had one
  resumedBy,              \* pairs <<snapshot ref, handler run that took it>>
  sockets,                \* line 768: every WebSocket made so far, in order
  bridgeWs,               \* line 738: None or Some(index into sockets)
  vscodeConnected,        \* line 739
  reconnectAttempts,      \* line 740
  timers,                 \* lines 813 and 1117: bag of pending setTimeout delays
  streak,                 \* delays scheduled since the counter was last zero
  sendRequests,           \* number of 'ws-bridge:send-message' events so far
  transmitted,            \* line 1534: <<request, prompt>> pairs given to send()
  droppedOn,              \* sockets a frame of which failed to parse
  rpcCalls,               \* ThinkDropMCPClient: the callService calls made
  httpRequests,           \* ThinkDropMCPClient: the requests _httpPost issued
  healthChecks,           \* ThinkDropMCPClient: the isServiceHealthy calls made
  healthy,                \* None or Some(what getHealthyServices resolved with)
  clipboardText,          \* what clipboard.readText() returns
  promptCaptureWindow,    \* line 734: "none", "hidden" or "visible"
  clipboardMonitorActive, \* line 821
  clipboardCheckInterval, \* line 823: TRUE while the interval is set
  lastClipboardContent,   \* line 822
  sentHighlights,         \* line 824
  recentlySubmittedPrompts, \* line 825
  promptTimers,           \* line 1128: prompts of the pending 60 s timers, in order
  highlights,             \* line 1055: the values sent as highlights, in order
  lastPoll,               \* the last tick of the interval of line 1015
  ocrCalls,               \* the processOcrOutput calls made
  webSockets,             \* vscodebridge.ts line 31: readyState of every WebSocket made
  bridge,                 \* VSCodeBridge: the fields ws and reconnectAttempts
  reconnects,             \* vscodebridge.ts line 83: pending reconnect timeouts
  lastCall,               \* the method of VSCodeBridge the application called last
  sendsTried,             \* channels the renderer called ipcRenderer.send with
  passedSends,            \* preload.js line 22: channels passed on to ipcRenderer.send
  onsTried,               \* channels the renderer called ipcRenderer.on with
  listening               \* preload.js line 38: channels passed on to ipcRenderer.on

promptVars == <<stateGraph, currentSessionId, pausedAutomationState, pending,
                handlerRuns, lastResolved, resumedBy>>

bridgeVars == <<sockets, bridgeWs, vscodeConnected, reconnectAttempts, timers,
                streak, sendRequests, transmitted, droppedOn>>

rpcVars == <<rpcCalls, httpRequests>>

healthVars == <<healthChecks, healthy>>

clipVars == <<clipboardText, promptCaptureWindow, clipboardMonitorActive,
              clipboardCheckInterval, lastClipboardContent, sentHighlights,
              recentlySubmittedPrompts, promptTimers, highlights, lastPoll>>

ocrVars == <<ocrCalls>>

rendererVars == <<webSockets, bridge, reconnects, lastCall>>

preloadVars == <<sendsTried, passedSends, onsTried, listening>>

vars == <<stateGraph, resultsWindow, currentSessionId, pausedAutomationState,
          pending, handlerRuns, emitted, lastEvent, lastResolved, resumedBy,
          bridgeVars, rpcVars, healthVars, clipVars, ocrVars, rendererVars, preloadVars>>

\* No tick of the clipboard interval yet.
NoPoll == [tick |-> 0, value |-> "", verdict |-> "none"]

\* A handler step: what it was (start, uninit, settled, threw), the handler
\* run it belongs to, the result the engine gave (settled only) and whether
\* the results window existed.
Event(kind, id, result, window) ==
  [kind |-> kind, id |-> id, result |-> result, window |-> window]

\* Lines 701-733 and 1110-1120: initStateGraph either builds the engine or
\* leaves stateGraph null; the windows are created; nothing is paused.
\* The state after construction, but for the prompts submitted.
InitButSubmissions ==
  /\ stateGraph \in BOOLEAN
  /\ resultsWindow = TRUE
  /\ currentSessionId = None
  /\ pausedAutomationState = None
  /\ pending = {}
  /\ emitted = <<>>
  /\ lastEvent = Event("none", 0, None, TRUE)
  /\ lastResolved = None
  /\ resumedBy = {}
  /\ sockets = <<>>
  /\ bridgeWs = None
  /\ vscodeConnected = FALSE
  /\ reconnectAttempts = 0
  /\ timers = SetToBag({StartupDelay})
  /\ streak = <<>>
  /\ sendRequests = 0
  /\ transmitted = {}
  /\ droppedOn = {}
  /\ rpcCalls = <<>>
  /\ httpRequests = <<>>
  /\ healthChecks = <<>>
  /\ healthy = None
  /\ clipboardText = ""
  /\ promptCaptureWindow = "hidden"
  /\ clipboardMonitorActive = FALSE
  /\ clipboardCheckInterval = FALSE
  /\ lastClipboardContent = ""
  /\ sentHighlights = {}
  /\ highlights = <<>>
  /\ lastPoll = NoPoll
  /\ ocrCalls = <<>>
  /\ webSockets = <<>>
  /\ bridge = [ws |-> None, reconnectAttempts |-> 0]
  /\ reconnects = 0
  /\ lastCall = "none"
  /\ sendsTried = {}
  /\ passedSends = {}
  /\ onsTried = {}
  /\ listening = {}

\* No prompt was submitted yet.
NoSubmission ==
  /\ handlerRuns = 0
  /\ recentlySubmittedPrompts = {}
  /\ promptTimers = <<>>

Init == InitButSubmissions /\ NoSubmission

(***************************************************************************)
(* Actions.                                                                *)
(***************************************************************************)
\* Lines 1123-1136: a prompt arrives and the engine was never built.
ProcessNotInitialised(prompt) ==
  /\ handlerRuns < MaxPrompts
  /\ ~stateGraph
  /\ handlerRuns' = handlerRuns + 1
  /\ emitted' = Send(resultsWindow, <<ErrorMsg("StateGraph not initialized")>>)
  /\ lastEvent' = Event("uninit", handlerRuns + 1, None, resultsWindow)
  /\ UNCHANGED <<stateGraph, resultsWindow, currentSessionId,
                 pausedAutomationState, pending, lastResolved, resumedBy>>
  /\ UNCHANGED <<bridgeVars, rpcVars, healthVars, clipVars, ocrVars, rendererVars, preloadVars>>

\* Lines 1123-1244: a prompt arrives; the handler builds the request and
\* suspends at the await.  The record of the suspended run keeps the request,
\* the arguments and the local chosenOption, and what the run found in
\* pausedAutomationState and currentSessionId; overlapped says that another
\* invocation was in flight during this one.
ProcessPrompt(prompt, selectedText, sessionId, userId) ==
  /\ handlerRuns < MaxPrompts
  /\ Cardinality(pending) < MaxInFlight
  /\ stateGraph
  /\ LET h == handlerRuns + 1
         inv == [id            |-> h,
                 prompt        |-> prompt,
                 selectedText  |-> selectedText,
                 sessionId     |-> sessionId,
                 userId        |-> userId,
                 pausedBefore  |-> pausedAutomationState,
                 sessionBefore |-> currentSessionId,
                 overlapped    |-> pending # {},
                 chosenOption  |->
                   IF pausedAutomationState # None
                   THEN Some(ChosenOption(Val(pausedAutomationState).st, prompt))
                   ELSE None,
                 initialState  |-> BuildInitialState(h, pausedAutomationState,
                                     prompt, selectedText, sessionId, userId,
                                     currentSessionId)]
     IN  /\ handlerRuns' = h
         /\ pausedAutomationState' =
              IF pausedAutomationState # None
              THEN TakeSlot(pausedAutomationState)
              ELSE pausedAutomationState
         /\ resumedBy' =
              IF pausedAutomationState # None
              THEN resumedBy \cup {<<Val(pausedAutomationState).ref, h>>}
              ELSE resumedBy
         /\ pending' = {[p EXCEPT !.overlapped = TRUE] : p \in pending} \cup {inv}
         /\ emitted' = Send(resultsWindow, <<SetPromptMsg(prompt)>>)
         /\ lastEvent' = Event("start", h, None, resultsWindow)
  /\ UNCHANGED <<stateGraph, resultsWindow, currentSessionId, lastResolved>>
  /\ UNCHANGED <<bridgeVars, rpcVars, healthVars, clipVars, ocrVars, rendererVars, preloadVars>>

\* Lines 1244-1291: the engine settles invocation inv with result r.
EngineSettles(inv, r) ==
  /\ inv \in pending
  /\ LET finalState == FinalState(inv.initialState, r)
     IN  /\ currentSessionId' = PersistSession(currentSessionId, finalState)
         /\ lastResolved' = IF finalState.resolvedSessionId # None
                            THEN finalState.resolvedSessionId
                            ELSE lastResolved
         /\ pausedAutomationState' =
              StoreSlot(pausedAutomationState, inv.id, finalState)
         /\ emitted' = Send(resultsWindow, SettleMessages(finalState))
         /\ lastEvent' = Event("settled", inv.id, Some(r), resultsWindow)
  /\ pending' = pending \ {inv}
  /\ UNCHANGED <<stateGraph, resultsWindow, handlerRuns, resumedBy>>
  /\ UNCHANGED <<bridgeVars, rpcVars, healthVars, clipVars, ocrVars, rendererVars, preloadVars>>

\* Lines 1244 and 1293-1298: the engine rejects invocation inv.
EngineThrows(inv, message) ==
  /\ inv \in pending
  /\ pending' = pending \ {inv}
  /\ emitted' = Send(resultsWindow, <<ErrorMsg(message)>>)
  /\ lastEvent' = Event("threw", inv.id, None, resultsWindow)
  /\ UNCHANGED <<stateGraph, resultsWindow, currentSessionId,
                 pausedAutomationState, handlerRuns, lastResolved, resumedBy>>
  /\ UNCHANGED <<bridgeVars, rpcVars, healthVars, clipVars, ocrVars, rendererVars, preloadVars>>

\* Lines 990-993: the results window is closed.
ResultsWindowClosed ==
  /\ resultsWindow
  /\ resultsWindow' = FALSE
  /\ UNCHANGED <<stateGraph, currentSessionId, pausedAutomationState, pending,
                 handlerRuns, emitted, lastEvent, lastResolved, resumedBy>>
  /\ UNCHANGED <<bridgeVars, rpcVars, healthVars, clipVars, ocrVars, rendererVars, preloadVars>>

\* Prompts arrive at any time, with no session id in the request: the id a
\* request carries only enters its context, which SpecReply varies.
Next ==
  \/ \E prompt \in Prompts : ProcessNotInitialised(prompt)
  \/ \E prompt \in Prompts, selectedText \in SelectedTexts,
        userId \in UserIds :
       ProcessPrompt(prompt, selectedText, None, userId)
  \/ \E inv \in pending, r \in EngineResults : EngineSettles(inv, r)
  \/ \E inv \in pending, message \in ErrorMessages : EngineThrows(inv, message)
  \/ ResultsWindowClosed

Spec == Init /\ [][Next]_vars

(***************************************************************************)
(* The replies to a paused automation: the same handler, with the user     *)
(* typing any of ReplyPrompts and waiting for the engine to settle before  *)
(* the next prompt, and an engine that completes or pauses.                *)
(***************************************************************************)
InitReply == Init /\ stateGraph

NextReply ==
  \/ /\ pending = {}
     /\ \E prompt \in ReplyPrompts, selectedText \in SelectedTexts,
           sessionId \in SessionArgs, userId \in UserIds :
          ProcessPrompt(prompt, selectedText, sessionId, userId)
  \/ \E inv \in pending, r \in ReplyResults : EngineSettles(inv, r)

SpecReply == InitReply /\ [][NextReply]_vars

(***************************************************************************)
(* Properties of the Automation Session Controller.                        *)
(***************************************************************************)
\* The suspended handler run a settlement step resumes: the record with the
\* id of the step, read in the state before the step.
Settling(id) == CHOOSE p \in pending : p.id = id

HasDone(msgs) == \E i \in 1..Len(msgs) : msgs[i] = DoneMsg

\* C1: a stored paused-automation snapshot leaves the slot only in the step of
\* a later prompt that takes it (to resume or to abort it); no other step,
\* under any interleaving of prompts and settlements, replaces or clears it.
C1_SnapshotLeavesOnlyByReply ==
  [][ (pausedAutomationState # None
       /\ pausedAutomationState' # pausedAutomationState)
      => /\ pausedAutomationState' = None
         /\ \E inv \in pending' :
              inv.id = handlerRuns' /\ inv.pausedBefore = pausedAutomationState
    ]_vars

C3_ThrowKeepsSessionAndSlot ==
  [][ (lastEvent' # lastEvent /\ lastEvent'.kind = "threw")
      => LET inv == Settling(lastEvent'.id)
         IN  ~inv.overlapped
             => /\ resultsWindow
                   => \E m \in ErrorMessages : emitted' = <<ErrorMsg(m)>>
                /\ currentSessionId' = inv.sessionBefore
                /\ pausedAutomationState' = inv.pausedBefore
    ]_vars

\* The text shown for question q names the question and each option with its
\* number.
ShowsQuestion(text, q) ==
  /\ Contains(text, q.question)
  /\ \A i \in 1..Len(q.options) :
       Contains(text, ToString(i) \o ". " \o q.options[i])

\* The settlement stored the returned state and sent the question, then done.
PausedWith(id, finalState, window, slot, sent) ==
  /\ slot = Some([ref |-> id, st |-> finalState])
  /\ window
       => /\ Len(sent) = 2
          /\ sent[1].channel = "ws-bridge:message"
          /\ sent[1].type = "chunk"
          /\ ShowsQuestion(sent[1].text, Val(finalState.pendingQuestion))
          /\ sent[2] = DoneMsg

\* C4 as stated: whenever the state the engine returns carries a pending
\* question, the whole returned state is stored as the paused automation and
\* the question with its numbered options is sent before the done signal.
C4_AnyPendingQuestionPauses ==
  [][ (lastEvent' # lastEvent /\ lastEvent'.kind = "settled")
      => LET inv == Settling(lastEvent'.id)
             finalState == FinalState(inv.initialState, Val(lastEvent'.result))
         IN  finalState.pendingQuestion # None
             => PausedWith(inv.id, finalState, resultsWindow,
                           pausedAutomationState', emitted')
    ]_vars

\* C4 amended: whenever the returned state has intent type command_automate
\* and a pending question with a non-empty question text, the whole returned
\* state is stored as the paused automation and, the results window existing,
\* the question with its numbered options is sent before the done signal; and
\* a prompt that arrives while a snapshot is stored takes that snapshot.
C4_AutomationQuestionPauses ==
  [][ /\ (lastEvent' # lastEvent /\ lastEvent'.kind = "settled")
         => LET inv == Settling(lastEvent'.id)
                finalState == FinalState(inv.initialState, Val(lastEvent'.result))
            IN  (/\ finalState.intent = Some("command_automate")
                 /\ finalState.pendingQuestion # None
                 /\ Val(finalState.pendingQuestion).question # "")
                => PausedWith(inv.id, finalState, resultsWindow,
                              pausedAutomationState', emitted')
      /\ (lastEvent' # lastEvent /\ lastEvent'.kind = "start"
          /\ pausedAutomationState # None)
         => \E inv \in pending' :
              /\ inv.id = lastEvent'.id
              /\ inv.pausedBefore = pausedAutomationState
              /\ inv.chosenOption # None
    ]_vars

\* C4 witness: an automation has just paused on a failed step: its state is
\* in the slot and the question with both options was sent before done.
C4_Witness ==
  /\ lastEvent.kind = "settled"
  /\ lastEvent.result = Some(PausedOnStep)
  /\ lastEvent.window
  /\ pausedAutomationState # None
  /\ Val(pausedAutomationState).ref = lastEvent.id
  /\ Len(emitted) = 2
  /\ Contains(emitted[1].text, "2. Skip step")
  /\ emitted[2] = DoneMsg

(***************************************************************************)
(* Properties of the replies to a paused automation.  A reply is a handler *)
(* run that found a snapshot in the slot; while the run is suspended its   *)
(* record holds the reply, the snapshot and the request that was built.    *)
(***************************************************************************)
Replies == {inv \in pending : inv.pausedBefore # None}
Paused(inv) == Val(inv.pausedBefore).st

\* The text contains abort, cancel, stop or no, in any letter case.
AbortPattern(text) ==
  \E w \in {"abort", "cancel", "stop", "no"} : Contains(ToLowerCase(text), w)

\* The text contains skip, in any letter case.
SkipPattern(text) == Contains(ToLowerCase(text), "skip")

\* The context of the request of run inv names the prompt's own session when
\* one was given and the current session otherwise.
OwnContext(inv) ==
  [sessionId |-> IF inv.sessionId # None THEN inv.sessionId
                 ELSE inv.sessionBefore,
   userId    |-> inv.userId,
   source    |-> "thinkdrop_electron"]

\* The request of run inv is built from the prompt alone.
IsFreshFromPrompt(inv) ==
  LET s == inv.initialState
  IN  /\ s.message = inv.prompt
      /\ s.selectedText = Some(inv.selectedText)
      /\ s.callbacks = inv.id
      /\ s.context = OwnContext(inv)
      /\ s.recoveryAction = None
      /\ s.recoveryContext = None
      /\ s.skillPlan = None
      /\ s.skillCursor = None
      /\ s.pendingQuestion = None
      /\ s.failedStep = None

C6_SkipClearsRecovery ==
  \A inv \in Replies :
    SkipPattern(inv.prompt)
      => LET s == inv.initialState
             p == Paused(inv)
         IN  /\ s.skillCursor =
                  Some((IF p.skillCursor = None THEN 0 ELSE Val(p.skillCursor)) + 1)
             /\ s.skillPlan = p.skillPlan
             /\ s.pendingQuestion = None
             /\ s.failedStep = None
             /\ s.recoveryAction = None
             /\ s.recoveryContext = None
             /\ s.stepRetryCount = Some(0)

\* The request of run inv replans the paused automation p.
IsReplanOf(inv, p) ==
  LET s == inv.initialState
  IN  /\ s.recoveryAction = Some("replan")
      /\ s.skillPlan = None
      /\ s.skillCursor = Some(0)
      /\ s.pendingQuestion = None
      /\ s.message = p.message
      /\ s.recoveryContext # None
      /\ Contains(Val(s.recoveryContext).suggestion, inv.prompt)
      /\ p.failedStep # None
           => /\ Some(Val(s.recoveryContext).failedSkill) = Val(p.failedStep).skill
              /\ Val(s.recoveryContext).failedStep = Val(p.failedStep).step
              /\ Some(Val(s.recoveryContext).failureReason) = Val(p.failedStep).error

IsNumber(text) ==
  text # "" /\ \A i \in 1..Len(text) : IsDigit(Ch(text, i))

\* C8 as stated: with k options, a reply that is the number n, 1 <= n <= k,
\* resolves to the n-th option; any other reply resolves to the reply text.
C8_NumberPicksOption ==
  \A inv \in Replies :
    LET options == Val(Paused(inv).pendingQuestion).options
        reply == Trim(inv.prompt)
        n == DigitRun(reply, 0)
    IN  IF IsNumber(reply) /\ 1 <= n /\ n <= Len(options)
        THEN inv.chosenOption = Some(options[n])
        ELSE inv.chosenOption = Some(reply)

\* C8 amended: with k options, a reply that (trimmed) starts with the number
\* n, 1 <= n <= k, resolves to the n-th option, whatever follows the digits;
\* any other reply resolves to the trimmed reply text.
C8_LeadingNumberPicksOption ==
  \A inv \in Replies :
    LET options == Val(Paused(inv).pendingQuestion).options
        reply == Trim(inv.prompt)
        n == ParseInt(reply)
    IN  IF ~IsNaN(n) /\ 1 <= NumVal(n) /\ NumVal(n) <= Len(options)
        THEN inv.chosenOption = Some(options[NumVal(n)])
        ELSE inv.chosenOption = Some(reply)

\* C8 witness: the reply "2" to a question with the options Retry and Skip
\* step resolved to Skip step.
C8_Witness ==
  \E inv \in Replies :
    /\ inv.prompt = "2"
    /\ Val(Paused(inv).pendingQuestion).options = <<"Retry", "Skip step">>
    /\ inv.chosenOption = Some("Skip step")

C10_SnapshotTakenOnce ==
  /\ \A a, b \in resumedBy : a[1] = b[1] => a[2] = b[2]
  /\ \A inv \in pending : inv.pausedBefore = None => IsFreshFromPrompt(inv)

\* C10 witness: two prompts arrived after a snapshot was stored and before
\* either settled: the first took the snapshot, the second is fresh.
C10_Witness ==
  \E a, b \in pending :
    /\ a.id < b.id
    /\ a.pausedBefore # None
    /\ b.pausedBefore = None
    /\ b.overlapped

(***************************************************************************)
(* VS Code bridge (lines 737-817 and 1504-1552): one WebSocket to the      *)
(* extension, reconnected with exponential back-off.  The socket belongs   *)
(* to the ws library: it is CONNECTING when made, becomes OPEN (event      *)
(* 'open'), or fails (event 'error', the socket then CLOSING), or is       *)
(* closed by the peer (CLOSING, no event), and a CLOSING socket ends       *)
(* CLOSED (event 'close').  A handler runs only while its listener is      *)
(* registered; every handler reads and writes the module-level bridgeWs,   *)
(* vscodeConnected and reconnectAttempts, whichever socket it was          *)
(* registered on.                                                          *)
(***************************************************************************)
\* Sockets made in one behaviour.
MaxSockets == 6
\* 'ws-bridge:send-message' events in one behaviour.
MaxSends == 2

\* Inbound frames tried on the message handler.
Frames == {"{\"type\":\"chunk\"}", "{oops", "null"}
BridgePrompts == {"hello"}
SocketErrorMessages == {"connect ECONNREFUSED"}

Socket(readyState, listeners) ==
  [readyState |-> readyState, listeners |-> listeners]

\* Line 768: new WebSocket(url), with the four listeners of lines 770-816.
NewSocket == Socket("CONNECTING", TRUE)

\* Lines 752-753: removeAllListeners() and terminate(): the connection is
\* torn down and its 'close' is heard by no listener.
Discard(sock) == Socket("CLOSED", FALSE)

\* Line 811 with a delay that grows by the base delay each time.
ReconnectDelayLinear(attempt) == RECONNECT_BASE_DELAY * attempt

\* Line 811: `RECONNECT_BASE_DELAY * Math.pow(2, reconnectAttempts - 1)`.
ReconnectDelay(attempt) == RECONNECT_BASE_DELAY * 2 ^ (attempt - 1)

\* Line 745 with only the OPEN state tested.
AlreadyOpen(socks, ws) ==
  ws # None /\ socks[Val(ws)].readyState = "OPEN"

\* Line 745: `bridgeWs && (readyState === OPEN || readyState === CONNECTING)`.
AlreadyConnected(socks, ws) ==
  ws # None /\ socks[Val(ws)].readyState \in {"OPEN", "CONNECTING"}

\* Line 757 with the ceiling itself still allowed.
AtCeilingAbove(attempts) == attempts > MAX_RECONNECT_ATTEMPTS

\* Line 757: `reconnectAttempts >= MAX_RECONNECT_ATTEMPTS`.
AtCeiling(attempts) == attempts >= MAX_RECONNECT_ATTEMPTS

\* Lines 744-768: connectToSocket(), as the sockets and bridgeWs it leaves.
ConnectToSocket(socks, ws, attempts) ==
  IF AlreadyConnected(socks, ws) THEN [sockets |-> socks, bridgeWs |-> ws]
  ELSE LET cleaned == IF ws # None
                      THEN [socks EXCEPT ![Val(ws)] = Discard(@)]
                      ELSE socks
       IN  IF AtCeiling(attempts)
           THEN [sockets |-> cleaned, bridgeWs |-> None]
           ELSE [sockets  |-> Append(cleaned, NewSocket),
                 bridgeWs |-> Some(Len(cleaned) + 1)]

\* Line 809: `reconnectAttempts < MAX_RECONNECT_ATTEMPTS`.
MayReconnect(attempts) == attempts < MAX_RECONNECT_ATTEMPTS

\* Line 810 with the close counted twice.
NextAttemptsTwice(attempts) == attempts + 2

\* Line 810: `reconnectAttempts++`.
NextAttempts(attempts) == attempts + 1

\* Line 1546 moved into connectToSocket: every connect request resets it.
AttemptsOnAnyRequest(kind, attempts) == 0

\* Lines 813, 1515 and 1546-1547: the counter connectToSocket() is called
\* with; only the 'ws-bridge:connect' handler sets it to 0 first.
AttemptsOnRequest(kind, attempts) == IF kind = "connect" THEN 0 ELSE attempts

\* Line 1509 with only the absence of a socket tested.
NotOpenAbsent(socks, ws) == ws = None

\* Line 1509: `!bridgeWs || bridgeWs.readyState !== WebSocket.OPEN`.
NotOpen(socks, ws) == ws = None \/ socks[Val(ws)].readyState # "OPEN"

ConnectedMsg == Msg("ws-bridge:connected", "", "")
DisconnectedMsg == Msg("ws-bridge:disconnected", "", "")
NotConnectedMsg == ErrorMsg("Not connected to VS Code extension")

\* Lines 781-786: the decoded frame as forwarded on 'ws-bridge:message', text
\* being the frame the forwarded object was decoded from.
ForwardMsg(message, frame) ==
  Msg("ws-bridge:message",
      IF Member(message, "type")[1] = "string"
      THEN Member(message, "type")[2] ELSE "",
      frame)

\* Lines 780-782: JSON.parse succeeds and message.type can be read.
Decodes(frame) == JsonParse(frame) # None /\ CanRead(Val(JsonParse(frame)))

\* Lines 1518-1530: the payload given to bridgeWs.send.
Payload(request, prompt, selectedText) ==
  [type |-> "llm_request", id |-> request, prompt |-> prompt,
   selectedText |-> selectedText]

\* The sockets and bridgeWs a call of connectToSocket leaves, kept within the
\* number of sockets of one behaviour.
CallConnectToSocket(attempts) ==
  LET c == ConnectToSocket(sockets, bridgeWs, attempts)
  IN  /\ Len(c.sockets) <= MaxSockets
      /\ sockets' = c.sockets
      /\ bridgeWs' = c.bridgeWs

\* Lines 813 and 1117: a pending timer fires and calls connectToSocket().
ReconnectTimer(delay) ==
  /\ BagIn(delay, timers)
  /\ timers' = timers (-) SetToBag({delay})
  /\ reconnectAttempts' = AttemptsOnRequest("timer", reconnectAttempts)
  /\ CallConnectToSocket(reconnectAttempts')
  /\ emitted' = <<>>
  /\ lastEvent' = Event("timer", delay, None, resultsWindow)
  /\ UNCHANGED <<vscodeConnected, streak, sendRequests, transmitted, droppedOn>>
  /\ UNCHANGED <<resultsWindow, promptVars, rpcVars, healthVars, clipVars,
               ocrVars, rendererVars, preloadVars>>

\* Lines 1544-1548: ipcMain.on('ws-bridge:connect').
BridgeConnect ==
  /\ reconnectAttempts' = AttemptsOnRequest("connect", reconnectAttempts)
  /\ streak' = <<>>
  /\ CallConnectToSocket(reconnectAttempts')
  /\ emitted' = <<>>
  /\ lastEvent' = Event("connect", 0, None, resultsWindow)
  /\ UNCHANGED <<vscodeConnected, timers, sendRequests, transmitted, droppedOn>>
  /\ UNCHANGED <<resultsWindow, promptVars, rpcVars, healthVars, clipVars,
               ocrVars, rendererVars, preloadVars>>

\* Lines 1505-1542: ipcMain.on('ws-bridge:send-message').
BridgeSendMessage(prompt, selectedText) ==
  /\ sendRequests < MaxSends
  /\ sendRequests' = sendRequests + 1
  /\ IF NotOpen(sockets, bridgeWs)
     THEN /\ emitted' = Send(resultsWindow, <<NotConnectedMsg>>)
          /\ reconnectAttempts' = AttemptsOnRequest("send", reconnectAttempts)
          /\ CallConnectToSocket(reconnectAttempts')
          /\ UNCHANGED transmitted
     ELSE /\ transmitted' =
               transmitted \cup {Payload(sendRequests + 1, prompt, selectedText)}
          /\ emitted' = <<>>
          /\ UNCHANGED <<sockets, bridgeWs, reconnectAttempts>>
  /\ lastEvent' = Event("send", sendRequests + 1, None, resultsWindow)
  /\ UNCHANGED <<vscodeConnected, timers, streak, droppedOn>>
  /\ UNCHANGED <<resultsWindow, promptVars, rpcVars, healthVars, clipVars,
               ocrVars, rendererVars, preloadVars>>

\* Lines 770-777: socket i becomes OPEN and emits 'open'.
SocketOpens(i) ==
  /\ sockets[i].readyState = "CONNECTING"
  /\ sockets' = [sockets EXCEPT ![i].readyState = "OPEN"]
  /\ IF sockets[i].listeners
     THEN /\ vscodeConnected' = TRUE
          /\ reconnectAttempts' = 0
          /\ streak' = <<>>
          /\ emitted' = Send(resultsWindow, <<ConnectedMsg>>)
     ELSE /\ emitted' = <<>>
          /\ UNCHANGED <<vscodeConnected, reconnectAttempts, streak>>
  /\ lastEvent' = Event("open", i, None, resultsWindow)
  /\ UNCHANGED <<bridgeWs, timers, sendRequests, transmitted, droppedOn>>
  /\ UNCHANGED <<resultsWindow, promptVars, rpcVars, healthVars, clipVars,
               ocrVars, rendererVars, preloadVars>>

\* Lines 793-799: socket i fails, during the handshake or once open, and
\* emits 'error'; its 'close' follows.
SocketErrors(i, message) ==
  /\ sockets[i].readyState \in {"CONNECTING", "OPEN"}
  /\ sockets' = [sockets EXCEPT ![i].readyState = "CLOSING"]
  /\ IF sockets[i].listeners
     THEN /\ vscodeConnected' = FALSE
          /\ emitted' = Send(resultsWindow, <<ErrorMsg(message)>>)
     ELSE /\ emitted' = <<>>
          /\ UNCHANGED vscodeConnected
  /\ lastEvent' = Event("error", i, None, resultsWindow)
  /\ UNCHANGED <<bridgeWs, reconnectAttempts, timers, streak, sendRequests,
                 transmitted, droppedOn>>
  /\ UNCHANGED <<resultsWindow, promptVars, rpcVars, healthVars, clipVars,
               ocrVars, rendererVars, preloadVars>>

\* The peer starts the closing handshake of the open socket i: the socket is
\* CLOSING and no event is emitted until it is closed.
SocketPeerCloses(i) ==
  /\ sockets[i].readyState = "OPEN"
  /\ sockets' = [sockets EXCEPT ![i].readyState = "CLOSING"]
  /\ emitted' = <<>>
  /\ lastEvent' = Event("closing", i, None, resultsWindow)
  /\ UNCHANGED <<bridgeWs, vscodeConnected, reconnectAttempts, timers, streak,
                 sendRequests, transmitted, droppedOn>>
  /\ UNCHANGED <<resultsWindow, promptVars, rpcVars, healthVars, clipVars,
               ocrVars, rendererVars, preloadVars>>

\* Lines 801-816: socket i is closed and emits 'close'.
SocketCloses(i) ==
  /\ sockets[i].readyState = "CLOSING"
  /\ sockets' = [sockets EXCEPT ![i].readyState = "CLOSED"]
  /\ IF sockets[i].listeners
     THEN /\ vscodeConnected' = FALSE
          /\ bridgeWs' = None
          /\ emitted' = Send(resultsWindow, <<DisconnectedMsg>>)
          /\ IF MayReconnect(reconnectAttempts)
             THEN /\ reconnectAttempts' = NextAttempts(reconnectAttempts)
                  /\ timers' =
                       timers (+) SetToBag({ReconnectDelay(reconnectAttempts')})
                  /\ streak' = Append(streak, ReconnectDelay(reconnectAttempts'))
             ELSE UNCHANGED <<reconnectAttempts, timers, streak>>
     ELSE /\ emitted' = <<>>
          /\ UNCHANGED <<vscodeConnected, bridgeWs, reconnectAttempts, timers,
                         streak>>
  /\ lastEvent' = Event("close", i, None, resultsWindow)
  /\ UNCHANGED <<sendRequests, transmitted, droppedOn>>
  /\ UNCHANGED <<resultsWindow, promptVars, rpcVars, healthVars, clipVars,
               ocrVars, rendererVars, preloadVars>>

\* Lines 779-791: the open socket i emits 'message' with the given frame.
SocketMessage(i, frame) ==
  /\ sockets[i].readyState = "OPEN"
  /\ sockets[i].listeners
  /\ IF Decodes(frame)
     THEN /\ emitted' =
               Send(resultsWindow, <<ForwardMsg(Val(JsonParse(frame)), frame)>>)
          /\ UNCHANGED droppedOn
     ELSE /\ emitted' = <<>>
          /\ droppedOn' = droppedOn \cup {i}
  /\ lastEvent' = Event("message", i, Some(frame), resultsWindow)
  /\ UNCHANGED <<sockets, bridgeWs, vscodeConnected, reconnectAttempts, timers,
                 streak, sendRequests, transmitted>>
  /\ UNCHANGED <<resultsWindow, promptVars, rpcVars, healthVars, clipVars,
               ocrVars, rendererVars, preloadVars>>

InitBridge == Init /\ stateGraph

\* The life of the connection: timers, connect and send requests, and the
\* socket's open, error and close, in any order.
NextBridge ==
  \/ \E delay \in BagToSet(timers) : ReconnectTimer(delay)
  \/ BridgeConnect
  \/ \E prompt \in BridgePrompts, selectedText \in SelectedTexts :
       BridgeSendMessage(prompt, selectedText)
  \/ \E i \in 1..Len(sockets) : SocketOpens(i)
  \/ \E i \in 1..Len(sockets), message \in SocketErrorMessages :
       SocketErrors(i, message)
  \/ \E i \in 1..Len(sockets) : SocketPeerCloses(i)
  \/ \E i \in 1..Len(sockets) : SocketCloses(i)

SpecBridge == InitBridge /\ [][NextBridge]_vars

\* The traffic of the connection: frames arriving and messages sent, on the
\* socket the start-up timer or a refused send made, within the delay of the
\* first reconnect; the results window may be closed meanwhile.
NextTraffic ==
  \/ ReconnectTimer(StartupDelay)
  \/ \E prompt \in BridgePrompts, selectedText \in SelectedTexts :
       BridgeSendMessage(prompt, selectedText)
  \/ \E i \in 1..Len(sockets) : SocketOpens(i)
  \/ \E i \in 1..Len(sockets), message \in SocketErrorMessages :
       SocketErrors(i, message)
  \/ \E i \in 1..Len(sockets) : SocketPeerCloses(i)
  \/ \E i \in 1..Len(sockets) : SocketCloses(i)
  \/ \E i \in 1..Len(sockets), frame \in Frames : SocketMessage(i, frame)
  \/ ResultsWindowClosed

SpecTraffic == InitBridge /\ [][NextTraffic]_vars

(***************************************************************************)
(* Properties of the bridge's connection.  A step of the bridge is known   *)
(* by the kind lastEvent takes in it: timer, connect, send, open, error,   *)
(* closing, close or message.                                              *)
(***************************************************************************)
Live(socks) ==
  {i \in 1..Len(socks) : socks[i].readyState \in {"CONNECTING", "OPEN"}}

Backoff == <<2000, 4000, 8000, 16000, 32000>>

\* The bridge holds a socket that is CONNECTING or OPEN.
CurrentIsLive == bridgeWs # None /\ Val(bridgeWs) \in Live(sockets)

\* C11: the delays scheduled by the closes that follow one another since the
\* reconnect counter was last zero are 2000, 4000, 8000, 16000 and 32000 ms
\* in this order, one for each unit of the counter, and no sixth delay is
\* ever scheduled.
C11_BackoffDelays ==
  /\ Len(streak) = reconnectAttempts
  /\ Len(streak) <= Len(Backoff)
  /\ streak = SubSeq(Backoff, 1, Len(streak))

\* C11 witness: five connections were closed one after the other, the five
\* delays were scheduled, and the last timer has fired without a new socket.
C11_Witness ==
  /\ streak = Backoff
  /\ reconnectAttempts = MAX_RECONNECT_ATTEMPTS
  /\ lastEvent.kind = "timer"
  /\ lastEvent.id = 32000
  /\ timers = EmptyBag
  /\ bridgeWs = None
  /\ Live(sockets) = {}

\* C12 as stated: at most one socket is live, and a connect request (timer,
\* explicit connect or refused send) arriving while the current socket is
\* CONNECTING or OPEN makes no socket and changes no bridge state.
C12_ConnectWhileLiveChangesNothing ==
  [][ /\ Cardinality(Live(sockets')) <= 1
      /\ (/\ lastEvent'.kind \in {"timer", "connect", "send"}
          /\ CurrentIsLive)
         => UNCHANGED <<sockets, bridgeWs, vscodeConnected, reconnectAttempts>>
    ]_vars

\* C12 amended: at most one socket is live, and a connect request arriving
\* while the current socket is CONNECTING or OPEN makes no socket and leaves
\* the socket and the connected flag as they are; the reconnect counter is
\* left as it is too, except that an explicit connect request sets it to 0.
C12_ConnectWhileLiveMakesNoSocket ==
  [][ /\ Cardinality(Live(sockets')) <= 1
      /\ (/\ lastEvent'.kind \in {"timer", "connect", "send"}
          /\ CurrentIsLive)
         => /\ UNCHANGED <<sockets, bridgeWs, vscodeConnected>>
            /\ reconnectAttempts' =
                 IF lastEvent'.kind = "connect" THEN 0 ELSE reconnectAttempts
    ]_vars

\* C12 witness: a send request was refused while the second socket was still
\* CONNECTING, and that socket is still the only live one.
C12_Witness ==
  /\ lastEvent.kind = "send"
  /\ transmitted = {}
  /\ bridgeWs = Some(2)
  /\ Len(sockets) = 2
  /\ sockets[2].readyState = "CONNECTING"
  /\ Live(sockets) = {2}

\* C13: with the reconnect counter at the ceiling, a timer or a send request
\* makes no socket; a step that makes one is an explicit connect request,
\* which leaves the counter at zero.
C13_CeilingStopsReconnect ==
  [][ reconnectAttempts = MAX_RECONNECT_ATTEMPTS
      => /\ lastEvent'.kind \in {"timer", "send"} => sockets' = sockets
         /\ Len(sockets') > Len(sockets)
            => lastEvent'.kind = "connect" /\ reconnectAttempts' = 0
    ]_vars

\* C13 witness: the counter is at the ceiling and a send request has just
\* been refused without a socket being made.
C13_Witness ==
  /\ reconnectAttempts = MAX_RECONNECT_ATTEMPTS
  /\ lastEvent.kind = "send"
  /\ bridgeWs = None
  /\ Len(sockets) = MAX_RECONNECT_ATTEMPTS
  /\ Live(sockets) = {}

\* C14 as stated: a step that takes the reconnect counter from a non-zero
\* value to zero is the open event of the current socket.
C14_ResetOnlyOnOpen ==
  [][ (reconnectAttempts # 0 /\ reconnectAttempts' = 0)
      => lastEvent'.kind = "open" /\ bridgeWs = Some(lastEvent'.id)
    ]_vars

\* C14 amended: a step that takes the reconnect counter from a non-zero
\* value to zero is the open event of the current socket or an explicit
\* connect request.
C14_ResetOnOpenOrConnect ==
  [][ (reconnectAttempts # 0 /\ reconnectAttempts' = 0)
      => \/ lastEvent'.kind = "open" /\ bridgeWs = Some(lastEvent'.id)
         \/ lastEvent'.kind = "connect"
    ]_vars

\* C14 witness: the first socket was closed, its reconnect timer is still
\* pending, and the socket a refused send made has opened: the counter is
\* back at zero.
C14_Witness ==
  /\ lastEvent.kind = "open"
  /\ lastEvent.id = 2
  /\ bridgeWs = Some(2)
  /\ sendRequests = 1
  /\ BagIn(2000, timers)
  /\ reconnectAttempts = 0
  /\ vscodeConnected

\* C15: the reconnect counter is an integer from 0 to 5.
C15_CounterInRange ==
  reconnectAttempts \in 0..MAX_RECONNECT_ATTEMPTS

\* C15 witness: the counter has reached the ceiling by the close of the
\* fifth socket.
C15_Witness ==
  /\ reconnectAttempts = MAX_RECONNECT_ATTEMPTS
  /\ lastEvent.kind = "close"
  /\ lastEvent.id = MAX_RECONNECT_ATTEMPTS

(***************************************************************************)
(* Properties of the bridge's traffic.                                     *)
(***************************************************************************)
\* The text is not JSON.
Undecodable(frame) == JsonValue(frame).ok => TrimStart(JsonValue(frame).rest) # ""

\* The text is the JSON of an object.
IsMessage(frame) ==
  /\ JsonValue(frame).ok
  /\ TrimStart(JsonValue(frame).rest) = ""
  /\ JsonValue(frame).val[1] = "object"

\* C16: a frame that fails to decode is dropped: nothing is sent to the
\* results window for it, and the sockets, bridgeWs, the connected flag and
\* the reconnect counter are as before, the socket still OPEN and listened
\* to; a frame that decodes to a message, also when it arrives on a socket
\* that dropped a frame before, is forwarded to the results window while the
\* window exists.
C16_BadFrameDropped ==
  [][ lastEvent'.kind = "message"
      => LET frame == Val(lastEvent'.result)
             i == lastEvent'.id
         IN  /\ Undecodable(frame)
                => /\ emitted' = <<>>
                   /\ UNCHANGED <<sockets, bridgeWs, vscodeConnected,
                                  reconnectAttempts, timers>>
                   /\ sockets'[i] = Socket("OPEN", TRUE)
             /\ (IsMessage(frame) /\ resultsWindow)
                => /\ Len(emitted') = 1
                   /\ emitted'[1].channel = "ws-bridge:message"
                   /\ emitted'[1].text = frame
    ]_vars

\* C16 witness: a well-formed frame has just been forwarded on a socket that
\* dropped a frame before.
C16_Witness ==
  /\ lastEvent.kind = "message"
  /\ lastEvent.id \in droppedOn
  /\ lastEvent.result = Some("{\"type\":\"chunk\"}")
  /\ emitted = <<Msg("ws-bridge:message", "chunk", "{\"type\":\"chunk\"}")>>
  /\ vscodeConnected
  /\ bridgeWs = Some(lastEvent.id)

\* The bridge holds no socket, or one that is not OPEN.
CurrentNotOpen ==
  bridgeWs = None \/ sockets[Val(bridgeWs)].readyState # "OPEN"

\* C17: a send request arriving while the socket is absent or not OPEN sends
\* the not-connected error to the results window, while the window exists,
\* and gives nothing to the socket; and a message is given to the socket
\* only in the step of its own send request, the socket being OPEN: never
\* later, whatever connection is made afterwards.
C17_RefusedSendNeverTransmitted ==
  [][ /\ (lastEvent'.kind = "send" /\ CurrentNotOpen)
         => /\ transmitted' = transmitted
            /\ resultsWindow => emitted' = <<NotConnectedMsg>>
      /\ \A p \in transmitted' \ transmitted :
           /\ lastEvent'.kind = "send"
           /\ p.id = lastEvent'.id
           /\ ~CurrentNotOpen
    ]_vars

\* C17 witness: the first send request was refused, a connection was opened
\* afterwards, and the second send request was transmitted: the socket was
\* given the second message only.
C17_Witness ==
  /\ lastEvent.kind = "send"
  /\ lastEvent.id = 2
  /\ vscodeConnected
  /\ transmitted = {Payload(2, "hello", "")}

(***************************************************************************)
(* ThinkDropMCPClient (src/src/main/ThinkDropMCPClient.js): callService    *)
(* posts {version, service, requestId, action, payload} to                 *)
(* {baseUrl}/{action} and hands back the decoded response.  A call is      *)
(* suspended at `await this._httpPost(...)` (line 95) until the promise of *)
(* _httpPost (lines 169-204) settles; the code after the await runs in the *)
(* same turn of the event loop as the settling event.                      *)
(***************************************************************************)
\* callService calls in one behaviour.
MaxCalls == 2

\* Lines 29-38: the own properties of this.serviceUrls.
ServiceUrls ==
  [name \in {"conversation", "user-memory", "web-search"} |->
     CASE name = "conversation" -> "http://localhost:3004"
       [] name = "user-memory" -> "http://localhost:3001"
       [] name = "web-search" -> "http://localhost:3002"]

\* Lines 41-50: the own properties of this.apiKeys, '' when no key is set.
ApiKeys ==
  [name \in {"conversation", "user-memory", "web-search"} |->
     CASE name = "conversation" -> "key-c"
       [] name = "user-memory" -> ""
       [] name = "web-search" -> "key-w"]

\* Properties every object literal inherits from Object.prototype.
ObjectPrototype == {"constructor", "toString", "hasOwnProperty", "valueOf"}

JFunction(name) == <<"function", name>>

\* Lines 62 and 78: `object[name]` on an object literal whose own properties
\* are the strings of props: an own property, else an inherited one (a
\* function), else undefined.
Lookup(props, name) ==
  IF name \in DOMAIN props THEN JString(props[name])
  ELSE IF name \in ObjectPrototype
  THEN JFunction(IF name = "constructor" THEN "Object" ELSE name)
  ELSE JUndefined

\* String(v), as a template literal or a concatenation makes it.
RECURSIVE ToText(_)
ToText(v) ==
  CASE v[1] = "string" -> v[2]
    [] v[1] = "number" -> ToString(v[2])
    [] v[1] = "boolean" -> IF v[2] THEN "true" ELSE "false"
    [] v[1] = "function" -> "function " \o v[2] \o "() { [native code] }"
    [] v[1] = "object" -> "[object Object]"
    [] OTHER -> v[1]

\* JSON.stringify(v) for the values JSON.parse gives.
RECURSIVE JsonStringify(_)
RECURSIVE StringifyMembers(_)
StringifyMembers(members) ==
  IF members = <<>> THEN ""
  ELSE "\"" \o members[1][1] \o "\":" \o JsonStringify(members[1][2])
       \o (IF Len(members) > 1 THEN "," ELSE "")
       \o StringifyMembers(Tail(members))

JsonStringify(v) ==
  CASE v[1] = "string" -> "\"" \o v[2] \o "\""
    [] v[1] = "object" -> "{" \o StringifyMembers(v[2]) \o "}"
    [] OTHER -> ToText(v)

\* Line 171: `new URL(url)` accepts the text (it throws a TypeError on a
\* text without a scheme).
IsUrl(url) == StartsWith(url, "http://") \/ StartsWith(url, "https://")

\* Line 64.
UnknownServiceError(serviceName) ==
  "[MCPClient] Unknown service: \"" \o serviceName
  \o "\". Add it to serviceUrls."

\* Line 67.
Url(baseUrl, action) == ToText(baseUrl) \o "/" \o action

\* The credential headers with both headers set whenever a key is configured.
CredentialHeadersBoth(serviceName) ==
  LET apiKey == Lookup(ApiKeys, serviceName)
  IN  IF ~Truthy(apiKey) THEN {}
      ELSE {<<"x-api-key", ToText(apiKey)>>,
            <<"Authorization", "Bearer " \o ToText(apiKey)>>}

\* Lines 78-90: the credential headers of the request, as a set of
\* <<name, value>> pairs.
CredentialHeaders(serviceName) ==
  LET apiKey == Lookup(ApiKeys, serviceName)
  IN  IF ~Truthy(apiKey) THEN {}
      ELSE IF serviceName = "conversation"
      THEN {<<"x-api-key", ToText(apiKey)>>}
      ELSE {<<"Authorization", "Bearer " \o ToText(apiKey)>>}

\* Lines 101-104: isFailure.
IsFailure(response) ==
  \/ Member(response, "success") = JBool(FALSE)
  \/ Member(response, "status") = JString("error")
  \/ (/\ Truthy(Member(response, "error"))
      /\ ~Truthy(Member(response, "data"))
      /\ Member(response, "success") # JBool(TRUE))

\* Lines 107-109: errMsg; Some(text), or None when reading error.message
\* throws (typeof null is 'object').
ErrMsg(response, serviceName, action) ==
  LET error == Member(response, "error")
      fallback == serviceName \o "." \o action \o " returned failure"
  IN  IF error = JNull THEN None
      ELSE IF error[1] = "object"
      THEN IF Truthy(Member(error, "message"))
           THEN Some(ToText(Member(error, "message")))
           ELSE Some(JsonStringify(error))
      ELSE IF Truthy(error) THEN Some(ToText(error)) ELSE Some(fallback)

\* How a call ends: with the value callService returns or the error it
\* throws.
Returned(value) == [kind |-> "returned", value |-> value, message |-> ""]
Thrown(name, message) == [kind |-> name, value |-> JUndefined, message |-> message]

\* Line 114 with the envelope unwrapped.
ReturnValueData(response) == Member(response, "data")

\* Line 114: `return response`.
ReturnValue(response) == response

\* Lines 96-118: the code after the await, given the text _httpPost resolved
\* with.
AfterResponse(responseText, serviceName, action) ==
  LET parsed == JsonParse(responseText)
      response == Val(parsed)
  IN  IF parsed = None THEN Thrown("SyntaxError", "Unexpected token")
      ELSE IF ~CanRead(response)
      THEN Thrown("TypeError", "Cannot read properties of null")
      ELSE IF IsFailure(response)
      THEN IF ErrMsg(response, serviceName, action) = None
           THEN Thrown("TypeError", "Cannot read properties of null")
           ELSE Thrown("Error", Val(ErrMsg(response, serviceName, action)))
      ELSE Returned(ReturnValue(response))

\* Lines 186-187.
HttpError(statusCode, data) ==
  Thrown("Error", "HTTP " \o ToString(statusCode) \o ": " \o data)

\* Line 26: `options.timeoutMs || 10000`, no option given.
timeoutMs == 10000

\* Line 197.
TimeoutError(url) ==
  Thrown("Error", "[MCPClient] Request timeout after " \o ToString(timeoutMs)
                  \o "ms: " \o url)

\* A promise that took the last outcome it is settled with.
SettleLast(outcome, new) == Some(new)

\* Line 170: a promise keeps the first outcome it is settled with.
Settle(outcome, new) == IF outcome = None THEN Some(new) ELSE outcome

\* The service names and actions callService is tried on: registered
\* services, a name that is no property at all and a name of
\* Object.prototype.
ServiceNames == {"conversation", "user-memory", "nosuch", "constructor"}
Actions == {"message.add"}

\* The response bodies the services are tried with.
Bodies ==
  {"{\"success\":true,\"data\":\"d1\"}",
   "{\"status\":\"ok\",\"data\":\"d1\"}",
   "{\"data\":\"d1\"}",
   "{\"success\":false,\"error\":\"boom\"}",
   "{\"status\":\"error\",\"error\":{\"message\":\"bad\"}}",
   "{\"status\":\"failed\",\"data\":\"d1\"}",
   "{\"error\":\"late\"}",
   "{\"success\":true,\"error\":\"warn\"}",
   "{\"error\":\"odd\",\"data\":\"d1\"}",
   "null",
   "<html>"}

\* What a request may receive: a status code and the body text.
HttpResponse(statusCode, data) == [statusCode |-> statusCode, data |-> data]
HttpResponses ==
  {HttpResponse(200, b) : b \in Bodies}
  \cup {HttpResponse(500, "Internal Server Error")}
RequestErrorMessages == {"socket hang up"}

\* A callService call: its arguments, the stage of its HTTP request (none
\* made: unknown or invalid; open; ended; destroyed; errored), what the
\* request received and how the call ended.
Call(serviceName, action, url, stage, response, outcome) ==
  [serviceName |-> serviceName, action |-> action, url |-> url,
   stage |-> stage, response |-> response, outcome |-> outcome]

\* Lines 61-95: callService up to the await; the request _httpPost issues is
\* appended to httpRequests.
CallService(serviceName, action) ==
  /\ Len(rpcCalls) < MaxCalls
  /\ LET baseUrl == Lookup(ServiceUrls, serviceName)
         url == Url(baseUrl, action)
     IN  IF ~Truthy(baseUrl)
         THEN /\ rpcCalls' =
                   Append(rpcCalls,
                          Call(serviceName, action, "", "unknown", None,
                               Some(Thrown("Error",
                                           UnknownServiceError(serviceName)))))
              /\ UNCHANGED httpRequests
         ELSE IF ~IsUrl(url)
         THEN /\ rpcCalls' =
                   Append(rpcCalls,
                          Call(serviceName, action, url, "invalid", None,
                               Some(Thrown("TypeError", "Invalid URL"))))
              /\ UNCHANGED httpRequests
         ELSE /\ rpcCalls' =
                   Append(rpcCalls,
                          Call(serviceName, action, url, "open", None, None))
              /\ httpRequests' =
                   Append(httpRequests,
                          [call |-> Len(rpcCalls) + 1, url |-> url,
                           credentials |-> CredentialHeaders(serviceName)])
  /\ UNCHANGED <<resultsWindow, emitted, lastEvent, promptVars, bridgeVars,
               healthVars, clipVars, ocrVars, rendererVars, preloadVars>>

\* Lines 182-192 and 96-118: the response of call c ends; _httpPost rejects
\* on a status of 400 or more and resolves otherwise, and callService goes
\* on after the await.
ResponseEnds(c, r) ==
  /\ rpcCalls[c].stage = "open"
  /\ rpcCalls' =
       [rpcCalls EXCEPT
          ![c].stage = "ended",
          ![c].response = Some(r),
          ![c].outcome =
            Settle(@, IF r.statusCode >= 400
                      THEN HttpError(r.statusCode, r.data)
                      ELSE AfterResponse(r.data, rpcCalls[c].serviceName,
                                         rpcCalls[c].action))]
  /\ UNCHANGED httpRequests
  /\ UNCHANGED <<resultsWindow, emitted, lastEvent, promptVars, bridgeVars,
               healthVars, clipVars, ocrVars, rendererVars, preloadVars>>

\* Lines 195-198: no activity on the request of call c for timeoutMs; the
\* request is destroyed and the promise rejected.
RequestTimesOut(c) ==
  /\ rpcCalls[c].stage = "open"
  /\ rpcCalls' =
       [rpcCalls EXCEPT
          ![c].stage = "destroyed",
          ![c].outcome = Settle(@, TimeoutError(rpcCalls[c].url))]
  /\ UNCHANGED httpRequests
  /\ UNCHANGED <<resultsWindow, emitted, lastEvent, promptVars, bridgeVars,
               healthVars, clipVars, ocrVars, rendererVars, preloadVars>>

\* Line 200: the request of call c emits 'error', while open or after it
\* was destroyed.
RequestErrors(c, message) ==
  /\ rpcCalls[c].stage \in {"open", "destroyed"}
  /\ rpcCalls' =
       [rpcCalls EXCEPT
          ![c].stage = "errored",
          ![c].outcome = Settle(@, Thrown("Error", message))]
  /\ UNCHANGED httpRequests
  /\ UNCHANGED <<resultsWindow, emitted, lastEvent, promptVars, bridgeVars,
               healthVars, clipVars, ocrVars, rendererVars, preloadVars>>

InitRpc == Init /\ stateGraph

NextRpc ==
  \/ \E serviceName \in ServiceNames, action \in Actions :
       CallService(serviceName, action)
  \/ \E c \in 1..Len(rpcCalls), r \in HttpResponses : ResponseEnds(c, r)
  \/ \E c \in 1..Len(rpcCalls) : RequestTimesOut(c)
  \/ \E c \in 1..Len(rpcCalls), message \in RequestErrorMessages :
       RequestErrors(c, message)

SpecRpc == InitRpc /\ [][NextRpc]_vars

(***************************************************************************)
(* Properties of callService.                                              *)
(***************************************************************************)
\* The calls made so far, by their place in rpcCalls.
CallIds == 1..Len(rpcCalls)

\* Call c got a response below status 400 whose body is JSON.
Decoded(c) ==
  /\ rpcCalls[c].response # None
  /\ Val(rpcCalls[c].response).statusCode < 400
  /\ JsonValue(Val(rpcCalls[c].response).data).ok
  /\ TrimStart(JsonValue(Val(rpcCalls[c].response).data).rest) = ""

\* The decoded body of such a call.
BodyOf(c) == JsonValue(Val(rpcCalls[c].response).data).val

Has(body, key) == Member(body, key) # JUndefined

\* C18: a call whose service name is not one of the registered names ends
\* with the unknown-service error, and no HTTP request is made for it.
C18_UnknownServiceFails ==
  \A c \in CallIds :
    rpcCalls[c].serviceName \notin DOMAIN ServiceUrls
    => /\ rpcCalls[c].outcome =
            Some(Thrown("Error", UnknownServiceError(rpcCalls[c].serviceName)))
       /\ \A i \in 1..Len(httpRequests) : httpRequests[i].call # c

\* The failure rule as the specification words it.
FailsAsSpecified(body) ==
  \/ Member(body, "success") = JBool(FALSE)
  \/ (Has(body, "status") /\ Member(body, "status") # JString("ok"))
  \/ (/\ Has(body, "error")
      /\ ~Has(body, "data")
      /\ Member(body, "success") # JBool(TRUE))

\* C19: a call whose response body was decoded to an object fails exactly
\* when the body has success = false, or a status other than "ok", or an
\* error with no data and no success = true, and returns in every other
\* case.
C19_FailsExactlyAsSpecified ==
  \A c \in CallIds :
    (Decoded(c) /\ BodyOf(c)[1] = "object")
    => (Val(rpcCalls[c].outcome).kind # "returned"
        <=> FailsAsSpecified(BodyOf(c)))

Settled(c) == rpcCalls[c].outcome # None

Responded(c) ==
  /\ Decoded(c)
  /\ Val(rpcCalls[c].outcome) = Returned(BodyOf(c))

TimedOut(c) ==
  /\ Val(rpcCalls[c].outcome).kind = "Error"
  /\ Val(rpcCalls[c].outcome).message =
       "[MCPClient] Request timeout after 10000ms: " \o rpcCalls[c].url

TransportFailed(c) ==
  /\ Val(rpcCalls[c].outcome).kind = "Error"
  /\ \/ Val(rpcCalls[c].outcome).message \in RequestErrorMessages
     \/ /\ rpcCalls[c].response # None
        /\ Val(rpcCalls[c].response).statusCode >= 400
        /\ StartsWith(Val(rpcCalls[c].outcome).message, "HTTP ")

RemoteFailed(c) ==
  /\ Decoded(c)
  /\ Val(rpcCalls[c].outcome).kind = "Error"
  /\ ~StartsWith(Val(rpcCalls[c].outcome).message, "[MCPClient] Request")
  /\ Val(rpcCalls[c].outcome).message \notin RequestErrorMessages

\* The body of a response below status 400 could not be used: it is no
\* JSON (SyntaxError) or it is null (TypeError).
DecodeFailed(c) ==
  /\ rpcCalls[c].response # None
  /\ Val(rpcCalls[c].response).statusCode < 400
  /\ Val(rpcCalls[c].outcome).kind \in {"SyntaxError", "TypeError"}

Count(flags) == Cardinality({i \in 1..Len(flags) : flags[i]})

\* A settled outcome is never replaced.
SettlesOnce ==
  \A c \in CallIds : Settled(c) => rpcCalls'[c].outcome = rpcCalls[c].outcome

Registered(c) == rpcCalls[c].serviceName \in DOMAIN ServiceUrls

HeaderServiceNames == {"conversation", "user-memory", "web-search"}
HeaderResponses == {HttpResponse(200, "{\"success\":true,\"data\":\"d1\"}")}

NextHeaders ==
  \/ \E serviceName \in HeaderServiceNames, action \in Actions :
       CallService(serviceName, action)
  \/ \E c \in 1..Len(rpcCalls), r \in HeaderResponses : ResponseEnds(c, r)
  \/ \E c \in 1..Len(rpcCalls) : RequestTimesOut(c)
  \/ \E c \in 1..Len(rpcCalls), message \in RequestErrorMessages :
       RequestErrors(c, message)

SpecHeaders == InitRpc /\ [][NextHeaders]_vars

HeaderNames(request) == {h[1] : h \in request.credentials}

C24_NoKeyReached ==
  \E i \in 1..Len(httpRequests) :
    /\ rpcCalls[httpRequests[i].call].serviceName = "user-memory"
    /\ httpRequests[i].credentials = {}

\* ---------------------------------------------------------------------
\* ThinkDropMCPClient: isServiceHealthy and getHealthyServices.
\* ---------------------------------------------------------------------

\* Bounds: the isServiceHealthy calls made on their own, and the endpoints
\* of this.serviceUrls that getHealthyServices is followed on.
MaxChecks == 1
MaxServices == 2

\* Line 132: healthPaths.
healthPaths == <<"/service.health", "/health">>

\* Line 158: Object.keys(this.serviceUrls), in the order of the literal.
ServiceOrder == <<"conversation", "user-memory", "web-search">>
serviceNames == SubSeq(ServiceOrder, 1, MaxServices)

\* What a probe (one _httpGet) ended with: the body text it resolved with,
\* or a rejection: the 3000 ms timeout (lines 226-229), an 'error' of the
\* request (231), or `new URL` throwing (208).
GotBody(text) == <<"body", text>>
GotTimeout == <<"timeout">>
GotError(message) == <<"error", message>>
GotInvalidUrl == <<"invalid">>

\* Lines 138-143 with the test of data.status === 'ok' left out.
PositiveWithoutOk(data) ==
  \/ Member(data, "status") = JString("up")
  \/ Member(data, "status") = JString("healthy")
  \/ Member(data, "success") = JBool(TRUE)

\* Lines 138-143: the test on the decoded body.
Positive(data) ==
  \/ Member(data, "status") = JString("up")
  \/ Member(data, "status") = JString("healthy")
  \/ Member(data, "status") = JString("ok")
  \/ Member(data, "success") = JBool(TRUE)

\* Lines 135-147: one turn of the loop, given what the probe ended with:
\* TRUE when the function returns true, FALSE when it goes on to the next
\* path (a rejection, a JSON.parse that throws and a read of null.status
\* that throws are all caught).
ProbeAccepted(result) ==
  /\ result[1] = "body"
  /\ JsonParse(result[2]) # None
  /\ CanRead(Val(JsonParse(result[2])))
  /\ Positive(Val(JsonParse(result[2])))

\* One isServiceHealthy call: the path being probed (0: none), what the
\* probes so far ended with, the value returned (None while running) and
\* whether getHealthyServices made the call.
Check(serviceName, path, received, verdict, aggregate) ==
  [serviceName |-> serviceName, path |-> path, received |-> received,
   verdict |-> verdict, aggregate |-> aggregate]

\* Lines 128-134: isServiceHealthy up to its first await. A base URL that is
\* no URL makes _httpGet reject at once on both paths.
StartCheck(serviceName, aggregate) ==
  LET baseUrl == Lookup(ServiceUrls, serviceName)
  IN  IF ~Truthy(baseUrl)
      THEN Check(serviceName, 0, <<>>, Some(FALSE), aggregate)
      ELSE IF ~IsUrl(ToText(baseUrl) \o healthPaths[1])
      THEN Check(serviceName, 0, <<GotInvalidUrl, GotInvalidUrl>>,
                 Some(FALSE), aggregate)
      ELSE Check(serviceName, 1, <<>>, None, aggregate)

\* Lines 135-148: the loop goes on after the probe of check ended with
\* result.
AfterProbe(check, result) ==
  IF ProbeAccepted(result)
  THEN [check EXCEPT !.path = 0, !.received = Append(@, result),
                     !.verdict = Some(TRUE)]
  ELSE IF check.path < Len(healthPaths)
  THEN [check EXCEPT !.path = @ + 1, !.received = Append(@, result)]
  ELSE [check EXCEPT !.path = 0, !.received = Append(@, result),
                     !.verdict = Some(FALSE)]

\* The names up to the first call that returned false.
RECURSIVE HealthyNamesUntilFailure(_)
HealthyNamesUntilFailure(checks) ==
  IF checks = <<>> THEN <<>>
  ELSE IF Head(checks).aggregate /\ Head(checks).verdict = Some(TRUE)
  THEN <<Head(checks).serviceName>> \o HealthyNamesUntilFailure(Tail(checks))
  ELSE <<>>

\* Lines 159-164: what getHealthyServices resolves with once every call of
\* its batch has returned: the names whose call returned true, in the order
\* of serviceNames.
RECURSIVE HealthyNames(_)
HealthyNames(checks) ==
  IF checks = <<>> THEN <<>>
  ELSE IF Head(checks).aggregate /\ Head(checks).verdict = Some(TRUE)
  THEN <<Head(checks).serviceName>> \o HealthyNames(Tail(checks))
  ELSE HealthyNames(Tail(checks))

\* Lines 159-164: None while a call of the batch is running.
Aggregated(checks, resolved) ==
  IF \E i \in 1..Len(checks) : checks[i].aggregate /\ checks[i].verdict = None
  THEN None
  ELSE IF \A i \in 1..Len(checks) : ~checks[i].aggregate THEN resolved
  ELSE Some(HealthyNames(checks))

\* The names isServiceHealthy is called with on its own and the bodies its
\* probes are answered with: the four accepted bodies, and bodies that are
\* not accepted.
CheckNames == {"conversation", "nosuch", "constructor"}
HealthBodies ==
  {"{\"status\":\"up\"}", "{\"status\":\"healthy\"}", "{\"status\":\"ok\"}",
   "{\"success\":true}",
   "{\"status\":\"down\"}", "{\"success\":false}", "{\"status\":\"OK\"}",
   "{\"success\":\"true\"}", "null", "<html>"}

\* The bodies the probes of getHealthyServices are answered with.
AggregateBodies == {"{\"status\":\"ok\"}", "{\"status\":\"down\"}", "<html>"}

\* Lines 127-134: isServiceHealthy(serviceName), called on its own.
IsServiceHealthy(serviceName) ==
  /\ Len(healthChecks) < MaxChecks
  /\ healthChecks' = Append(healthChecks, StartCheck(serviceName, FALSE))
  /\ UNCHANGED healthy
  /\ UNCHANGED <<resultsWindow, emitted, lastEvent, promptVars, bridgeVars,
                 rpcVars, clipVars, ocrVars, rendererVars, preloadVars>>

\* Lines 157-161: getHealthyServices on a client that has made no check
\* yet: one isServiceHealthy call per name, all started before the await.
GetHealthyServices ==
  /\ healthChecks = <<>>
  /\ healthy = None
  /\ healthChecks' =
       [i \in 1..Len(serviceNames) |-> StartCheck(serviceNames[i], TRUE)]
  /\ healthy' = Aggregated(healthChecks', healthy)
  /\ UNCHANGED <<resultsWindow, emitted, lastEvent, promptVars, bridgeVars,
                 rpcVars, clipVars, ocrVars, rendererVars, preloadVars>>

\* The probe of check i ends with result; the loop of isServiceHealthy goes
\* on, and getHealthyServices resolves when this was the last call of its
\* batch to return.
ProbeEnds(i, result) ==
  /\ healthChecks[i].path > 0
  /\ healthChecks' = [healthChecks EXCEPT ![i] = AfterProbe(@, result)]
  /\ healthy' = Aggregated(healthChecks', healthy)
  /\ UNCHANGED <<resultsWindow, emitted, lastEvent, promptVars, bridgeVars,
                 rpcVars, clipVars, ocrVars, rendererVars, preloadVars>>

\* Lines 219-223: the response of the probe of check i ends (whatever its
\* status code) and _httpGet resolves with the body.
ProbeResponds(i, text) == ProbeEnds(i, GotBody(text))

\* Lines 226-229: no activity for 3000 ms on the probe of check i.
ProbeTimesOut(i) == ProbeEnds(i, GotTimeout)

\* Line 231: the request of the probe of check i emits 'error'.
ProbeErrors(i, message) == ProbeEnds(i, GotError(message))

InitHealth == Init /\ stateGraph

NextHealth ==
  \/ \E serviceName \in CheckNames : IsServiceHealthy(serviceName)
  \/ \E i \in 1..Len(healthChecks), text \in HealthBodies :
       ProbeResponds(i, text)
  \/ \E i \in 1..Len(healthChecks) : ProbeTimesOut(i)
  \/ \E i \in 1..Len(healthChecks), message \in RequestErrorMessages :
       ProbeErrors(i, message)

SpecHealth == InitHealth /\ [][NextHealth]_vars

NextAggregate ==
  \/ GetHealthyServices
  \/ \E i \in 1..Len(healthChecks), text \in AggregateBodies :
       ProbeResponds(i, text)
  \/ \E i \in 1..Len(healthChecks) : ProbeTimesOut(i)
  \/ \E i \in 1..Len(healthChecks), message \in RequestErrorMessages :
       ProbeErrors(i, message)

SpecAggregate == InitHealth /\ [][NextAggregate]_vars

\* Health claims.

\* The accepted bodies as the specification words them: the text is JSON
\* for an object whose status is "up", "healthy" or "ok" or whose success is
\* true.
AcceptedBody(result) ==
  /\ result[1] = "body"
  /\ JsonValue(result[2]).ok
  /\ TrimStart(JsonValue(result[2]).rest) = ""
  /\ JsonValue(result[2]).val[1] = "object"
  /\ \/ Member(JsonValue(result[2]).val, "status")
          \in {JString("up"), JString("healthy"), JString("ok")}
     \/ Member(JsonValue(result[2]).val, "success") = JBool(TRUE)

\* C23: a finished isServiceHealthy call returned true exactly when the
\* body at /service.health was accepted, or that probe failed or was not
\* accepted and the body at /health was; /health is probed only after the
\* first probe failed or was not accepted; a call on a name that is no
\* registered service returned false without any request.
C23_HealthyExactlyOnAcceptedBody ==
  \A i \in 1..Len(healthChecks) :
    LET check == healthChecks[i]
        n == Len(check.received)
    IN  /\ n <= 2
        /\ n = 2 => ~AcceptedBody(check.received[1])
        /\ check.verdict # None
           => /\ Val(check.verdict) \in BOOLEAN
              /\ Val(check.verdict)
                 <=> (n > 0 /\ AcceptedBody(check.received[n]))
              /\ ~Val(check.verdict) => (n = 2 \/ check.path = 0)
        /\ check.serviceName \notin DOMAIN ServiceUrls
           => /\ check.verdict = Some(FALSE)
              /\ \A k \in 1..n : check.received[k] = GotInvalidUrl
        /\ (check.verdict = None /\ n = 1) => check.path = 2

\* C23 witness: a call returned true on the body at /health after the probe
\* of /service.health was answered with a body that is not accepted.
C23_Witness ==
  \E i \in 1..Len(healthChecks) :
    /\ healthChecks[i].verdict = Some(TRUE)
    /\ Len(healthChecks[i].received) = 2
    /\ healthChecks[i].received[1] = GotBody("{\"status\":\"down\"}")
    /\ healthChecks[i].received[2] = GotBody("{\"status\":\"ok\"}")

\* The last probe of check i ended with an accepted body.
ProbedHealthy(i) ==
  /\ healthChecks[i].received # <<>>
  /\ AcceptedBody(healthChecks[i].received[Len(healthChecks[i].received)])

AllReturned == \A i \in 1..Len(healthChecks) : healthChecks[i].verdict # None

\* C21: getHealthyServices resolves exactly when every one of its N calls
\* has returned, with the N-K names, in the order of the endpoints, whose
\* own last probe was accepted (K being the number of endpoints whose probes
\* failed), whatever the probes of the other endpoints ended with.
C21_AggregateIsHealthySubset ==
  /\ healthy # None <=> (healthChecks # <<>> /\ AllReturned)
  /\ healthy # None
     => /\ Val(healthy) =
             SelectSeq(serviceNames,
                       LAMBDA name :
                         \E i \in 1..Len(healthChecks) :
                           /\ healthChecks[i].serviceName = name
                           /\ ProbedHealthy(i))
        /\ Len(Val(healthy)) =
             Len(serviceNames)
             - Cardinality({i \in 1..Len(healthChecks) : ~ProbedHealthy(i)})
  /\ \A i \in 1..Len(healthChecks) :
       healthChecks[i].verdict # None
       => (Val(healthChecks[i].verdict) <=> ProbedHealthy(i))

\* C21 witness: the aggregate resolved with the second endpoint alone, the
\* probes of the first having timed out and returned a body that is no
\* JSON.
C21_Witness ==
  /\ healthy = Some(<<"user-memory">>)
  /\ healthChecks[1].received = <<GotTimeout, GotBody("<html>")>>
  /\ Len(healthChecks[2].received) = 2

\* ---------------------------------------------------------------------
\* Clipboard monitoring (main.js 821-825, 999-1075) and the handlers that
\* show and hide the prompt capture window.
\* ---------------------------------------------------------------------

\* Bound: the highlights followed.
MaxHighlights == 2

\* Line 1038: `trimmed.split('\n')`.
UntilNewline(s) ==
  LET breaks == {k \in 1..Len(s) : Ch(s, k) = "\n"}
  IN  IF breaks = {} THEN s
      ELSE SubSeq(s, 1, (CHOOSE k \in breaks : \A j \in breaks : k <= j) - 1)

RECURSIVE SplitLines(_)
SplitLines(s) ==
  LET first == UntilNewline(s)
  IN  IF Len(first) = Len(s) THEN <<first>>
      ELSE <<first>> \o SplitLines(Drop(s, Len(first) + 1))

EndsWith(s, p) ==
  Len(s) >= Len(p) /\ SubSeq(s, Len(s) - Len(p) + 1, Len(s)) = p

\* Lines 1037-1039: isShortPlainText.
IsShortPlainText(currentClipboard) ==
  LET trimmed == Trim(currentClipboard)
      lines == SplitLines(trimmed)
  IN  Len(lines) = 1 /\ Len(trimmed) < 200

\* Lines 1045-1048 with no blank line let through.
IsJsonLogStrict(currentClipboard) ==
  LET lines == SplitLines(Trim(currentClipboard))
  IN  \A k \in 1..Len(lines) :
        StartsWith(Trim(lines[k]), "{") /\ EndsWith(Trim(lines[k]), "}")

\* Lines 1045-1048: isJsonLog.
IsJsonLog(currentClipboard) ==
  LET lines == SplitLines(Trim(currentClipboard))
  IN  /\ \A k \in 1..Len(lines) :
           LET t == Trim(lines[k])
           IN  t = "" \/ (StartsWith(t, "{") /\ EndsWith(t, "}"))
      /\ \E k \in 1..Len(lines) : Trim(lines[k]) # ""

\* Line 1027: the value is looked at.
IsNew(currentClipboard, last, sent) ==
  currentClipboard # "" /\ currentClipboard # last
  /\ currentClipboard \notin sent

\* Lines 1027-1058: what a tick does with the value it read: "same"
\* (nothing), "recent", "short", "json" (the value is only remembered as
\* the last one seen) or "forward".
Classify(currentClipboard, last, sent, recent) ==
  IF ~IsNew(currentClipboard, last, sent) THEN "same"
  ELSE IF Trim(currentClipboard) \in recent THEN "recent"
  ELSE IF IsShortPlainText(currentClipboard) THEN "short"
  ELSE IF IsJsonLog(currentClipboard) THEN "json"
  ELSE "forward"

\* Line 1021 testing only that the window exists.
WindowGoneIfClosed(window) == window = "none"

\* Line 1021: `!promptCaptureWindow || !promptCaptureWindow.isVisible()`.
WindowGone(window) == window # "visible"

\* Lines 1065 and 1073: sentHighlights after stopClipboardMonitoring().
SentAfterStop(active, sent) == IF active THEN {} ELSE sent

\* Lines 1064-1075: stopClipboardMonitoring().
StopClipboardMonitoring ==
  /\ clipboardMonitorActive' = FALSE
  /\ clipboardCheckInterval' =
       IF clipboardMonitorActive THEN FALSE ELSE clipboardCheckInterval
  /\ sentHighlights' = SentAfterStop(clipboardMonitorActive, sentHighlights)
  /\ UNCHANGED lastClipboardContent

\* Lines 999-1015: startClipboardMonitoring().
StartClipboardMonitoring ==
  /\ clipboardMonitorActive' = TRUE
  /\ clipboardCheckInterval' = TRUE
  /\ lastClipboardContent' =
       IF clipboardMonitorActive THEN lastClipboardContent ELSE clipboardText
  /\ UNCHANGED sentHighlights

Poll(tick, value, verdict) == [tick |-> tick, value |-> value, verdict |-> verdict]

\* Lines 1015-1060: a tick of the interval.
PollTick ==
  /\ clipboardCheckInterval
  /\ Len(highlights) < MaxHighlights
  /\ IF ~clipboardMonitorActive
     THEN /\ clipboardCheckInterval' = FALSE
          /\ lastPoll' = Poll(1 - lastPoll.tick, "", "inactive")
          /\ UNCHANGED <<clipboardMonitorActive, lastClipboardContent,
                         sentHighlights, highlights>>
     ELSE IF WindowGone(promptCaptureWindow)
     THEN /\ StopClipboardMonitoring
          /\ lastPoll' = Poll(1 - lastPoll.tick, "", "stopped")
          /\ UNCHANGED highlights
     ELSE LET verdict == Classify(clipboardText, lastClipboardContent,
                                  sentHighlights, recentlySubmittedPrompts)
          IN  /\ lastPoll' = Poll(1 - lastPoll.tick, clipboardText, verdict)
              /\ lastClipboardContent' =
                   IF verdict = "same" THEN lastClipboardContent
                   ELSE clipboardText
              /\ highlights' =
                   IF verdict = "forward"
                   THEN Append(highlights, clipboardText)
                   ELSE highlights
              /\ sentHighlights' =
                   IF verdict = "forward"
                   THEN sentHighlights \cup {clipboardText}
                   ELSE sentHighlights
              /\ UNCHANGED <<clipboardMonitorActive, clipboardCheckInterval>>
  /\ UNCHANGED <<clipboardText, promptCaptureWindow, recentlySubmittedPrompts,
                 promptTimers>>
  /\ UNCHANGED <<resultsWindow, emitted, lastEvent, promptVars, bridgeVars,
                 rpcVars, healthVars, ocrVars, rendererVars, preloadVars>>

\* The user, or another program, copies text.
Copy(text) ==
  /\ clipboardText # text
  /\ clipboardText' = text
  /\ UNCHANGED <<promptCaptureWindow, clipboardMonitorActive,
                 clipboardCheckInterval, lastClipboardContent, sentHighlights,
                 recentlySubmittedPrompts, promptTimers, highlights, lastPoll>>
  /\ UNCHANGED <<resultsWindow, emitted, lastEvent, promptVars, bridgeVars,
                 rpcVars, healthVars, ocrVars, rendererVars, preloadVars>>

\* Lines 1124-1128: the 'stategraph:process' handler records the prompt and
\* sets the 60 s timer that forgets it. These lines write
\* recentlySubmittedPrompts, which only the tick of the clipboard interval
\* reads; what the handler does after them is ProcessNotInitialised and
\* ProcessPrompt, which touch no clipboard variable.
SubmitPrompt(prompt) ==
  /\ handlerRuns < MaxPrompts
  /\ handlerRuns' = handlerRuns + 1
  /\ recentlySubmittedPrompts' = recentlySubmittedPrompts \cup {Trim(prompt)}
  /\ promptTimers' = Append(promptTimers, prompt)
  /\ UNCHANGED <<clipboardText, promptCaptureWindow, clipboardMonitorActive,
                 clipboardCheckInterval, lastClipboardContent, sentHighlights,
                 highlights, lastPoll>>
  /\ UNCHANGED <<stateGraph, currentSessionId, pausedAutomationState, pending,
                 lastResolved, resumedBy>>
  /\ UNCHANGED <<resultsWindow, emitted, lastEvent, bridgeVars, rpcVars,
                 healthVars, ocrVars, rendererVars, preloadVars>>

\* Line 1128: the oldest pending 60 s timer fires (the delays are equal, so
\* the timers fire in the order they were set).
PromptTimerFires ==
  /\ promptTimers # <<>>
  /\ recentlySubmittedPrompts' =
       recentlySubmittedPrompts \ {Trim(Head(promptTimers))}
  /\ promptTimers' = Tail(promptTimers)
  /\ UNCHANGED <<clipboardText, promptCaptureWindow, clipboardMonitorActive,
                 clipboardCheckInterval, lastClipboardContent, sentHighlights,
                 highlights, lastPoll>>
  /\ UNCHANGED <<resultsWindow, emitted, lastEvent, promptVars, bridgeVars,
                 rpcVars, healthVars, ocrVars, rendererVars, preloadVars>>

\* Lines 1301-1362: the global shortcut hides the visible window and stops
\* monitoring, or shows the hidden window and starts monitoring.
ShortcutToggle ==
  /\ promptCaptureWindow # "none"
  /\ IF promptCaptureWindow = "visible"
     THEN /\ promptCaptureWindow' = "hidden"
          /\ StopClipboardMonitoring
     ELSE /\ promptCaptureWindow' = "visible"
          /\ StartClipboardMonitoring
  /\ UNCHANGED <<clipboardText, recentlySubmittedPrompts, promptTimers,
                 highlights, lastPoll>>
  /\ UNCHANGED <<resultsWindow, emitted, lastEvent, promptVars, bridgeVars,
                 rpcVars, healthVars, ocrVars, rendererVars, preloadVars>>

\* Lines 1364-1369: 'prompt-capture:hide'.
PromptCaptureHide ==
  /\ promptCaptureWindow # "none"
  /\ promptCaptureWindow' = "hidden"
  /\ StopClipboardMonitoring
  /\ UNCHANGED <<clipboardText, recentlySubmittedPrompts, promptTimers,
                 highlights, lastPoll>>
  /\ UNCHANGED <<resultsWindow, emitted, lastEvent, promptVars, bridgeVars,
                 rpcVars, healthVars, ocrVars, rendererVars, preloadVars>>

\* Lines 1484-1487: 'prompt-capture:capture-screenshot' hides both windows
\* before it takes the screenshot; monitoring is not stopped.
CaptureScreenshot ==
  /\ resultsWindow
  /\ promptCaptureWindow = "visible"
  /\ promptCaptureWindow' = "hidden"
  /\ UNCHANGED <<clipboardText, clipboardMonitorActive, clipboardCheckInterval,
                 lastClipboardContent, sentHighlights, recentlySubmittedPrompts,
                 promptTimers, highlights, lastPoll>>
  /\ UNCHANGED <<resultsWindow, emitted, lastEvent, promptVars, bridgeVars,
                 rpcVars, healthVars, ocrVars, rendererVars, preloadVars>>

\* Lines 1383-1390: 'results-window:show' shows the capture window too;
\* monitoring is not started.
ResultsWindowShow ==
  /\ resultsWindow
  /\ promptCaptureWindow = "hidden"
  /\ promptCaptureWindow' = "visible"
  /\ UNCHANGED <<clipboardText, clipboardMonitorActive, clipboardCheckInterval,
                 lastClipboardContent, sentHighlights, recentlySubmittedPrompts,
                 promptTimers, highlights, lastPoll>>
  /\ UNCHANGED <<resultsWindow, emitted, lastEvent, promptVars, bridgeVars,
                 rpcVars, healthVars, ocrVars, rendererVars, preloadVars>>

\* Lines 896-898: the capture window is closed.
CaptureWindowClosed ==
  /\ promptCaptureWindow # "none"
  /\ promptCaptureWindow' = "none"
  /\ UNCHANGED <<clipboardText, clipboardMonitorActive, clipboardCheckInterval,
                 lastClipboardContent, sentHighlights, recentlySubmittedPrompts,
                 promptTimers, highlights, lastPoll>>
  /\ UNCHANGED <<resultsWindow, emitted, lastEvent, promptVars, bridgeVars,
                 rpcVars, healthVars, ocrVars, rendererVars, preloadVars>>

\* Texts: a prompt of two lines, which passes the filters for short text
\* and logs, and two other texts of two lines.
OwnPrompt == "fix this\nnow"
SelfPrompts == {OwnPrompt}
SelfTexts == {OwnPrompt, "alpha\nbeta"}
MonitorTexts == {"alpha\nbeta", "gamma\ndelta"}

InitClip == Init /\ stateGraph

\* The self-submission filter: submissions, their timers, copies and ticks
\* while the window is toggled by the shortcut.
NextSelfCapture ==
  \/ \E prompt \in SelfPrompts : SubmitPrompt(prompt)
  \/ PromptTimerFires
  \/ \E text \in SelfTexts : Copy(text)
  \/ ShortcutToggle
  \/ PollTick

SpecSelfCapture == InitClip /\ [][NextSelfCapture]_vars

\* Monitoring as the window is shown, hidden and closed.
NextMonitor ==
  \/ \E text \in MonitorTexts : Copy(text)
  \/ ShortcutToggle
  \/ PromptCaptureHide
  \/ CaptureScreenshot
  \/ ResultsWindowShow
  \/ CaptureWindowClosed
  \/ PollTick

SpecMonitor == InitClip /\ [][NextMonitor]_vars

\* Clipboard claims.

\* The step is a tick of the clipboard interval.
IsPollTick == lastPoll'.tick # lastPoll.tick

\* A 60 s timer set for the prompt is still pending: every submission made
\* less than 60 seconds ago is among these.
SubmittedRecently(prompt) ==
  \E k \in 1..Len(promptTimers) : promptTimers[k] = prompt

\* C25: a tick forwards nothing when the trimmed clipboard text is a prompt
\* that was submitted less than 60 seconds earlier.
C25_RecentPromptNotForwarded ==
  [][(IsPollTick /\ SubmittedRecently(Trim(clipboardText)))
     => highlights' = highlights]_vars

\* The value passes the filters for empty, already sent, short and log
\* text.
PassesOtherFilters(value) ==
  /\ value # ""
  /\ value \notin sentHighlights
  /\ ~(Len(SplitLines(Trim(value))) = 1 /\ Len(Trim(value)) < 200)
  /\ ~IsJsonLog(value)

\* C26: with a prompt submitted once, a tick rejects the clipboard text equal
\* (after trim) to it while the submission is less than 60 s old, and a tick
\* taken after the 60 s, with monitoring running and the text passing the
\* other filters, forwards it: when the text is new to the monitor and also
\* when the tick before saw it and rejected it as a recent prompt.
C26_RejectedThenAccepted ==
  [][(IsPollTick /\ handlerRuns = 1)
     => /\ SubmittedRecently(Trim(clipboardText)) => highlights' = highlights
        /\ (/\ promptTimers = <<>>
            /\ Trim(clipboardText) \in SelfPrompts
            /\ clipboardMonitorActive
            /\ promptCaptureWindow = "visible"
            /\ PassesOtherFilters(clipboardText)
            /\ \/ clipboardText # lastClipboardContent
               \/ lastPoll = Poll(lastPoll.tick, clipboardText, "recent"))
           => highlights' = Append(highlights, clipboardText)]_vars

\* C27: no value occurs twice among the forwarded highlights.
C27_NeverForwardedTwice ==
  \A i, j \in 1..Len(highlights) : i < j => highlights[i] # highlights[j]

C29_ClosedReached ==
  /\ lastPoll.verdict = "stopped"
  /\ promptCaptureWindow = "none"
  /\ ~clipboardMonitorActive

\* The texts the filters are tried on: single lines of 199 and 200
\* characters, log lines with and without a blank line
\* between them, a log line followed by plain text, and the prompt with
\* white space around it.
RECURSIVE Repeat(_, _)
Repeat(s, n) ==
  IF n = 0 THEN ""
  ELSE IF n % 2 = 0 THEN Repeat(s, n \div 2) \o Repeat(s, n \div 2)
  ELSE s \o Repeat(s, n - 1)

FilterTexts ==
  {Repeat("x", 199), Repeat("x", 200), "{a}\n{b}", "{a}\n\n{b}", "{a}\nb",
   " " \o OwnPrompt \o "\n"}

\* The state the filters are followed from: no prompt was submitted, or
\* the prompt was submitted once and its 60 s are not over.
InitFilters ==
  /\ InitButSubmissions
  /\ stateGraph
  /\ \/ NoSubmission
     \/ /\ handlerRuns = 1
        /\ recentlySubmittedPrompts = {Trim(OwnPrompt)}
        /\ promptTimers = <<OwnPrompt>>

\* The filters on every kind of text.
NextFilters ==
  \/ \E text \in FilterTexts : Copy(text)
  \/ ShortcutToggle
  \/ PollTick

SpecFilters == InitFilters /\ [][NextFilters]_vars

\* Every line of the trimmed text, trimmed, starts and ends with a brace.
OnlyBraceLines(value) ==
  \A k \in 1..Len(SplitLines(Trim(value))) :
    LET t == Trim(SplitLines(Trim(value))[k])
    IN  StartsWith(t, "{") /\ EndsWith(t, "}")

\* Every line of the trimmed text that is not blank, trimmed, starts and
\* ends with a brace.
OnlyBraceOrBlankLines(value) ==
  \A k \in 1..Len(SplitLines(Trim(value))) :
    LET t == Trim(SplitLines(Trim(value))[k])
    IN  t = "" \/ (StartsWith(t, "{") /\ EndsWith(t, "}"))

SingleShortLine(value) ==
  /\ \A k \in 1..Len(Trim(value)) : Ch(Trim(value), k) # "\n"
  /\ Len(Trim(value)) < 200

\* The conditions of C28 other than the one on log lines.
QualifiesButForLogs(value) ==
  /\ value # ""
  /\ value # lastClipboardContent
  /\ value \notin sentHighlights
  /\ Trim(value) \notin recentlySubmittedPrompts
  /\ ~SingleShortLine(value)

\* What a tick of running monitoring does, given whether the value it reads
\* qualifies.
TickForwardsExactlyWhen(qualifies) ==
  (IsPollTick /\ clipboardMonitorActive /\ promptCaptureWindow = "visible")
  => IF qualifies
     THEN /\ highlights' = Append(highlights, clipboardText)
          /\ sentHighlights' = sentHighlights \cup {clipboardText}
     ELSE /\ highlights' = highlights
          /\ sentHighlights' = sentHighlights

\* C28 as stated: a tick forwards the clipboard value exactly when it is not
\* empty, differs from the last value seen, was not sent, its trim is no
\* recently submitted prompt, it is not one line under 200 characters, and
\* it is not made only of lines that start and end with a brace; otherwise
\* it forwards nothing and adds nothing to the sent set.
C28_ForwardsExactlyWhenQualified ==
  [][TickForwardsExactlyWhen(QualifiesButForLogs(clipboardText)
                             /\ ~OnlyBraceLines(clipboardText))]_vars

\* C28 amended: the last condition is that not every non-blank line starts
\* and ends with a brace.
C28_ForwardsExactlyWhenQualifiedNonBlank ==
  [][TickForwardsExactlyWhen(QualifiesButForLogs(clipboardText)
                             /\ ~OnlyBraceOrBlankLines(clipboardText))]_vars

\* C28 witness: a tick has forwarded the text of 200 characters, and the
\* last tick rejected log lines with a blank line between them.
C28_Witness ==
  /\ highlights = <<Repeat("x", 200)>>
  /\ lastPoll.value = "{a}\n\n{b}"
  /\ lastPoll.verdict = "json"

\* ---------------------------------------------------------------------
\* Screen-text post-processing (src/unnamed/part_002).
\* ---------------------------------------------------------------------

\* Bound: the processOcrOutput calls followed.
MaxOcrCalls == 2

CharsOf(s) == {Ch(s, k) : k \in 1..Len(s)}
AlphaNumeric == CharsOf(UpperChars) \cup CharsOf(LowerChars) \cup CharsOf(Digits)

\* Line 4: the characters \x20-\x7E (but the grave accent, which no text
\* followed here holds).
Printable ==
  AlphaNumeric \cup CharsOf(" !\"#$%&'()*+,-./:;<=>?@[\\]^_{|}~")

\* Line 3: `.replace(/\s+/g, ' ')`.
RECURSIVE CollapseWhitespace(_)
CollapseWhitespace(s) ==
  IF s = "" THEN ""
  ELSE IF IsSpace(Ch(s, 1))
  THEN " " \o CollapseWhitespace(TrimStart(s))
  ELSE Ch(s, 1) \o CollapseWhitespace(Drop(s, 1))

\* Line 4: `.replace(/[^\x20-\x7E]/g, '')`.
RECURSIVE OnlyPrintable(_)
OnlyPrintable(s) ==
  IF s = "" THEN ""
  ELSE (IF Ch(s, 1) \in Printable THEN Ch(s, 1) ELSE "")
       \o OnlyPrintable(Drop(s, 1))

\* Lines 1-6.
cleanOcrText(raw) == Trim(OnlyPrintable(CollapseWhitespace(raw)))

\* Line 10: the class [a-zA-Z0-9/_-] and the extensions, in the order of
\* the alternation.
PathChars == AlphaNumeric \cup {"/", "_", "-"}
Extensions == <<"js", "jsx", "ts", "tsx", "json", "md", "png">>

RECURSIVE PathRun(_)
PathRun(s) ==
  IF s = "" \/ Ch(s, 1) \notin PathChars THEN 0 ELSE 1 + PathRun(Drop(s, 1))

\* The first alternative of the alternation that s starts with, "" if none.
FirstExtension(s) ==
  LET found == {k \in 1..Len(Extensions) : StartsWith(s, Extensions[k])}
  IN  IF found = {} THEN ""
      ELSE Extensions[CHOOSE k \in found : \A j \in found : k <= j]

\* The length of the match of the pattern of line 10 at the start of s, 0
\* if there is none: the longest run of the class, a dot, an extension.
FileMatch(s) ==
  LET run == PathRun(s)
      ext == FirstExtension(Drop(s, run + 1))
  IN  IF run > 0 /\ run < Len(s) /\ Ch(s, run + 1) = "." /\ ext # ""
      THEN run + 1 + Len(ext)
      ELSE 0

\* Line 12: `text.match(regex) || []`, the matches from left to right.
RECURSIVE FileMatches(_)
FileMatches(s) ==
  IF s = "" THEN <<>>
  ELSE IF FileMatch(s) > 0
  THEN <<SubSeq(s, 1, FileMatch(s))>> \o FileMatches(Drop(s, FileMatch(s)))
  ELSE FileMatches(Drop(s, 1))

\* `[...new Set(list)]` : the first occurrence of each element, in order.
RECURSIVE Unique(_)
Unique(list) ==
  IF list = <<>> THEN <<>>
  ELSE LET init == Unique(SubSeq(list, 1, Len(list) - 1))
           last == list[Len(list)]
       IN  IF \E k \in 1..Len(init) : init[k] = last THEN init
           ELSE Append(init, last)

\* Lines 8-13.
extractFileNames(text) == Unique(FileMatches(text))

\* Line 19: /^(export|import|function|const|let|var)\b/ on the trimmed line.
Keywords == {"export", "import", "function", "const", "let", "var"}
WordChars == AlphaNumeric \cup {"_"}
OpensWithKeyword(line) ==
  \E w \in Keywords :
    /\ StartsWith(line, w)
    /\ (Len(line) = Len(w) \/ Ch(line, Len(w) + 1) \notin WordChars)

\* Lines 15-21.
extractCodeSnippets(text) ==
  SelectSeq(SplitLines(text), LAMBDA line : OpensWithKeyword(Trim(line)))

\* Lines 81-92: isValidFileName.
Forbidden == {"<", ">", ":", "\"", "/", "\\", "|", "?", "*", "\t", "\n"}
HasExtension(name) ==
  \E k \in 1..(Len(name) - 1) :
    /\ Ch(name, k) = "."
    /\ \A j \in (k + 1)..Len(name) : Ch(name, j) \in AlphaNumeric
isValidFileName(name) ==
  /\ CharsOf(name) \cap Forbidden = {}
  /\ Len(Trim(name)) > 0
  /\ Len(name) < 256
  /\ HasExtension(name)

\* Lines 94-107: step3_dedupeAndValidate.
RECURSIVE UniqueIgnoringCase(_)
UniqueIgnoringCase(files) ==
  IF files = <<>> THEN <<>>
  ELSE LET init == UniqueIgnoringCase(SubSeq(files, 1, Len(files) - 1))
           last == files[Len(files)]
       IN  IF \E k \in 1..Len(init) : ToLowerCase(init[k]) = ToLowerCase(last)
           THEN init
           ELSE Append(init, last)

step3_dedupeAndValidate(files) ==
  SelectSeq(UniqueIgnoringCase(files), isValidFileName)

\* Lines 57-58 and 65-66: every occurrence of the literal text is removed.
RECURSIVE RemoveAll(_, _)
RemoveAll(s, literal) ==
  IF s = "" \/ literal = "" THEN s
  ELSE IF StartsWith(s, literal) THEN RemoveAll(Drop(s, Len(literal)), literal)
  ELSE Ch(s, 1) \o RemoveAll(Drop(s, 1), literal)

RECURSIVE RemoveEach(_, _)
RemoveEach(s, literals) ==
  IF literals = <<>> THEN s
  ELSE RemoveEach(RemoveAll(s, Trim(Head(literals))), Tail(literals))

\* Lines 41-79: processOcrOutput (additionalCleanedText, a function of
\* redactedText alone, is not followed).
processOcrOutput(rawOcrText) ==
  LET cleaned == cleanOcrText(rawOcrText)
      files == extractFileNames(cleaned)
      code == extractCodeSnippets(cleaned)
      validFiles == step3_dedupeAndValidate(files)
  IN  [files |-> validFiles,
       codeSnippets |-> code,
       cleanedText |-> cleaned,
       redactedText |-> RemoveEach(RemoveEach(cleaned, validFiles), code)]

\* Recognized screen texts, each with the file name and the import line it
\* holds.
OcrInput(text, file, line) == [text |-> text, file |-> file, line |-> line]
OcrInputs ==
  {OcrInput("import x from 'util.js'", "util.js", "import x from 'util.js'"),
   OcrInput("open main.js\nimport a from 'b'", "main.js", "import a from 'b'"),
   OcrInput("import a from 'b'\nsee main.js", "main.js", "import a from 'b'"),
   OcrInput("App.tsx\nimport React from 'react'", "App.tsx",
            "import React from 'react'"),
   OcrInput("data.json\n  import d from 'd'", "data.json", "import d from 'd'"),
   OcrInput("README.md\tMain.JS main.js\nimport os", "README.md", "import os"),
   OcrInput("src/app.ts\nimport fs from 'fs'", "src/app.ts",
            "import fs from 'fs'"),
   OcrInput("logo.png logo.png\nimport z", "logo.png", "import z"),
   OcrInput("import util.js", "util.js", "import util.js"),
   OcrInput("importer.js\nimport q", "importer.js", "import q")}

\* processOcrOutput is called on a recognized text.
ProcessOcrOutput(input) ==
  /\ Len(ocrCalls) < MaxOcrCalls
  /\ ocrCalls' = Append(ocrCalls, [input |-> input,
                                   output |-> processOcrOutput(input.text)])
  /\ UNCHANGED <<resultsWindow, emitted, lastEvent, promptVars, bridgeVars,
                 rpcVars, healthVars, clipVars, rendererVars, preloadVars>>

InitOcr == Init /\ stateGraph

NextOcr == \E input \in OcrInputs : ProcessOcrOutput(input)

SpecOcr == InitOcr /\ [][NextOcr]_vars

\* OCR claims.

Among(list, item) == \E k \in 1..Len(list) : list[k] = item

\* C30: for a text holding a file name and a line that begins with import,
\* the file name is among files, the import line is among codeSnippets, and
\* neither occurs in redactedText.
C30_FileAndImportExtractedAndRedacted ==
  \A c \in 1..Len(ocrCalls) :
    LET input == ocrCalls[c].input
        output == ocrCalls[c].output
    IN  /\ Among(output.files, input.file)
        /\ Among(output.codeSnippets, input.line)
        /\ ~Contains(output.redactedText, input.file)
        /\ ~Contains(output.redactedText, input.line)

\* ---------------------------------------------------------------------
\* The server is unreachable: no socket ever opens, and nobody asks for a
\* connection ('ws-bridge:connect'); messages may still be sent.
\* ---------------------------------------------------------------------
NextFailing ==
  \/ \E delay \in BagToSet(timers) : ReconnectTimer(delay)
  \/ \E prompt \in BridgePrompts, selectedText \in SelectedTexts :
       BridgeSendMessage(prompt, selectedText)
  \/ \E i \in 1..Len(sockets), message \in SocketErrorMessages :
       SocketErrors(i, message)
  \/ \E i \in 1..Len(sockets) : SocketCloses(i)

SpecFailing == InitBridge /\ [][NextFailing]_vars

\* The delays the close handler schedules, one per value of the counter.
ScheduledDelays == {ReconnectDelay(k) : k \in 1..MAX_RECONNECT_ATTEMPTS}

\* A reconnect timer of the close handler fires, no message having asked for
\* a connection meanwhile.
ReconnectFires(delays) ==
  /\ lastEvent'.kind = "timer"
  /\ lastEvent'.id \in delays
  /\ lastEvent' # lastEvent
  /\ sendRequests = 0

\* C31: with every connection failing and no explicit connect request, each
\* of the five reconnects the close handler schedules (after 2000, 4000,
\* 8000, 16000 and 32000 ms) opens a new connection when its delay elapses.
C31_EveryScheduledReconnectConnects ==
  [][ReconnectFires(ScheduledDelays) =>
       /\ Len(sockets') = Len(sockets) + 1
       /\ bridgeWs' = Some(Len(sockets'))]_vars

(***************************************************************************)
(* Numbered replies and the answer handed to the replanning.               *)
(***************************************************************************)
\* The reply of run inv is the number of one of the options offered.
IsOptionNumber(inv) ==
  LET options == Val(Paused(inv).pendingQuestion).options
      reply == Trim(inv.prompt)
  IN  IsNumber(reply) /\ 1 <= DigitRun(reply, 0) /\ DigitRun(reply, 0) <= Len(options)

\* The option the reply of run inv numbers.
NumberedOption(inv) ==
  Val(Paused(inv).pendingQuestion).options[DigitRun(Trim(inv.prompt), 0)]

\* C32: a reply that is the number of an offered option is resumed with
\* recoveryAction = replan whatever the text of the option, and a reply is
\* resumed otherwise (abort or skip) only when the text typed matches the
\* abort or the skip pattern.
C32_OptionNumberReplans ==
  \A inv \in Replies :
    /\ IsOptionNumber(inv) => inv.initialState.recoveryAction = Some("replan")
    /\ inv.initialState.recoveryAction # Some("replan")
         => AbortPattern(inv.prompt) \/ SkipPattern(inv.prompt)

\* C33: the suggestion of the recoveryContext of a replanning request quotes
\* the resolved answer: the text of the n-th option when the reply is the
\* number n of an offered option, the reply text otherwise.
C33_SuggestionQuotesResolvedAnswer ==
  \A inv \in Replies :
    inv.initialState.recoveryAction = Some("replan")
      => LET answer == IF IsOptionNumber(inv) THEN NumberedOption(inv)
                       ELSE inv.prompt
         IN  Contains(Val(inv.initialState.recoveryContext).suggestion,
                      "\"" \o answer \o "\"")

(***************************************************************************)
(* Answers to a paused automation that are no commands: the same handler,  *)
(* one prompt at a time, with an engine that pauses on a failed step, or   *)
(* pauses once more when it was resumed past the last step of the plan, or *)
(* completes.                                                              *)
(***************************************************************************)
AnswerPrompts == {"another one", "now", "retry later", "skip"}

\* An automation paused after the last step of its plan.
PausedAfterPlan ==
  Result(Some("command_automate"), None,
         Question("Not verified. What now?", <<"Retry", "Skip step">>),
         None, None, Some(Plan), Some(Len(Plan)), Some(0))

AnswerResults == {Automated, PausedOnStep, PausedAfterPlan}

NextAnswers ==
  \/ /\ pending = {}
     /\ \E prompt \in AnswerPrompts, selectedText \in SelectedTexts,
           userId \in UserIds :
          ProcessPrompt(prompt, selectedText, None, userId)
  \/ \E inv \in pending, r \in AnswerResults : EngineSettles(inv, r)

SpecAnswers == InitReply /\ [][NextAnswers]_vars

\* The text holds the word w, with no letter, digit or underscore next to it.
HasWord(text, w) ==
  \E k \in 1..(Len(text) - Len(w) + 1) :
    /\ SubSeq(text, k, k + Len(w) - 1) = w
    /\ k > 1 => Ch(text, k - 1) \notin WordChars
    /\ k + Len(w) <= Len(text) => Ch(text, k + Len(w)) \notin WordChars

\* The text holds abort, cancel, stop or no as a word of its own.
AbortWord(text) ==
  \E w \in {"abort", "cancel", "stop", "no"} : HasWord(ToLowerCase(text), w)

\* C34: a reply is handled as an abort only when its chosen text holds abort,
\* cancel, stop or no as a whole word; an answer with none of these words and
\* without skip (such as "another one" or "now") resumes the snapshot for
\* replanning.
C34_AbortOnlyOnWholeWord ==
  \A inv \in Replies :
    LET chosen == Val(inv.chosenOption)
    IN  /\ ~AbortWord(chosen) => ~IsFreshFromPrompt(inv)
        /\ (~AbortWord(chosen) /\ ~SkipPattern(chosen))
             => IsReplanOf(inv, Paused(inv))

\* The request of run inv skips a step of the paused automation.
IsSkip(inv) ==
  /\ inv.initialState.recoveryAction = None
  /\ inv.initialState.skillCursor # None
  /\ inv.initialState.skillPlan = Paused(inv).skillPlan

\* C35: after a skip reply the plan cursor passed to the engine is at most
\* the number of steps of the plan that is kept, however many rounds of
\* pause and skip came before.
C35_SkipCursorWithinPlan ==
  \A inv \in Replies :
    (SkipPattern(Val(inv.chosenOption)) /\ IsSkip(inv))
      => Val(inv.initialState.skillCursor) <= Len(Val(inv.initialState.skillPlan))

\* C36: whenever the capture window is visible, clipboard monitoring is
\* active and its poll is running, after any sequence of hotkey toggles,
\* hide requests, screenshot captures and results-window show requests.
C36_VisibleImpliesMonitoring ==
  promptCaptureWindow = "visible"
    => clipboardMonitorActive /\ clipboardCheckInterval

\* C37: the connected flag is true only while the bridge holds a socket that
\* is OPEN, also after a connect request discarded a closing socket.
C37_ConnectedFlagMeansOpenSocket ==
  vscodeConnected
    => bridgeWs # None /\ sockets[Val(bridgeWs)].readyState = "OPEN"

(***************************************************************************)
(* The renderer-side bridge (src/renderer/services/vscodebridge.ts): a     *)
(* browser WebSocket to the extension.  A socket is CONNECTING when made,  *)
(* becomes OPEN (onopen), fails or is closed by either side (CLOSING) and  *)
(* ends CLOSED (onclose); its handlers stay set for its whole life.  The   *)
(* serverUrl is a valid one; the promise connect() returns and its 5000 ms *)
(* timeout (lines 27, 36, 60-64) change no field and are not followed.     *)
(***************************************************************************)
\* Bound: the WebSockets the bridge makes in one behaviour.
MaxWebSockets == 4

\* Line 19.
maxReconnectAttempts == 5

\* Lines 26-71: connect() makes a socket and keeps it in this.ws, whatever
\* this.ws held.
connect(socks, b) ==
  [webSockets |-> Append(socks, "CONNECTING"),
   bridge |-> [b EXCEPT !.ws = Some(Len(socks) + 1)]]

\* Lines 73-88: attemptReconnect(); pendingTimeouts counts the timeouts set.
attemptReconnect(b, pendingTimeouts) ==
  IF b.reconnectAttempts >= maxReconnectAttempts
  THEN [bridge |-> b, reconnects |-> pendingTimeouts]
  ELSE [bridge |-> [b EXCEPT !.reconnectAttempts = @ + 1],
        reconnects |-> pendingTimeouts + 1]

\* Line 127: close() on a socket.
Close(readyState) ==
  IF readyState \in {"CONNECTING", "OPEN"} THEN "CLOSING" ELSE readyState

\* Lines 125-130: disconnect().
disconnect(socks, b) ==
  IF b.ws # None
  THEN [webSockets |-> [socks EXCEPT ![Val(b.ws)] = Close(@)],
        bridge |-> [b EXCEPT !.ws = None]]
  ELSE [webSockets |-> socks, bridge |-> b]

RendererUnchanged ==
  UNCHANGED <<resultsWindow, emitted, lastEvent, promptVars, bridgeVars,
              rpcVars, healthVars, clipVars, ocrVars, preloadVars>>

\* The application calls connect().
VSCodeBridgeConnect ==
  /\ Len(webSockets) < MaxWebSockets
  /\ webSockets' = connect(webSockets, bridge).webSockets
  /\ bridge' = connect(webSockets, bridge).bridge
  /\ lastCall' = "connect"
  /\ UNCHANGED reconnects
  /\ RendererUnchanged

\* Lines 83-87: a reconnect timeout fires and calls connect().
ReconnectTimeout ==
  /\ reconnects > 0
  /\ Len(webSockets) < MaxWebSockets
  /\ reconnects' = reconnects - 1
  /\ webSockets' = connect(webSockets, bridge).webSockets
  /\ bridge' = connect(webSockets, bridge).bridge
  /\ UNCHANGED lastCall
  /\ RendererUnchanged

\* The application calls disconnect().
VSCodeBridgeDisconnect ==
  /\ webSockets' = disconnect(webSockets, bridge).webSockets
  /\ bridge' = disconnect(webSockets, bridge).bridge
  /\ lastCall' = "disconnect"
  /\ UNCHANGED reconnects
  /\ RendererUnchanged

\* Lines 33-37: socket i opens (onopen).
WsOpens(i) ==
  /\ webSockets[i] = "CONNECTING"
  /\ webSockets' = [webSockets EXCEPT ![i] = "OPEN"]
  /\ bridge' = [bridge EXCEPT !.reconnectAttempts = 0]
  /\ UNCHANGED <<reconnects, lastCall>>
  /\ RendererUnchanged

\* Lines 49-52: socket i fails, or the peer closes it (onerror changes no
\* field); its onclose follows.
WsFails(i) ==
  /\ webSockets[i] \in {"CONNECTING", "OPEN"}
  /\ webSockets' = [webSockets EXCEPT ![i] = "CLOSING"]
  /\ UNCHANGED <<bridge, reconnects, lastCall>>
  /\ RendererUnchanged

\* Lines 54-58: socket i is closed (onclose): this.ws = null, whichever
\* socket this.ws held, and attemptReconnect().
WsCloses(i) ==
  /\ webSockets[i] = "CLOSING"
  /\ webSockets' = [webSockets EXCEPT ![i] = "CLOSED"]
  /\ LET r == attemptReconnect([bridge EXCEPT !.ws = None], reconnects)
     IN  bridge' = r.bridge /\ reconnects' = r.reconnects
  /\ UNCHANGED lastCall
  /\ RendererUnchanged

InitRenderer == Init /\ stateGraph

NextRenderer ==
  \/ VSCodeBridgeConnect
  \/ ReconnectTimeout
  \/ VSCodeBridgeDisconnect
  \/ \E i \in 1..Len(webSockets) : WsOpens(i)
  \/ \E i \in 1..Len(webSockets) : WsFails(i)
  \/ \E i \in 1..Len(webSockets) : WsCloses(i)

SpecRenderer == InitRenderer /\ [][NextRenderer]_vars

\* Renderer bridge claims.

\* The sockets that are CONNECTING or OPEN.
LiveWebSockets ==
  {i \in 1..Len(webSockets) : webSockets[i] \in {"CONNECTING", "OPEN"}}

\* C38: the renderer-side bridge has at most one live socket (CONNECTING or
\* OPEN) in every state: connect() while a socket is live makes no second
\* one, whatever the order of connect() calls, reconnect timeouts and closes.
C38_AtMostOneLiveSocket == Cardinality(LiveWebSockets) <= 1

\* C39: after disconnect(), until connect() is called again, no reconnect
\* is scheduled and no socket is made.
C39_StaysDisconnected ==
  [][(lastCall = "disconnect" /\ lastCall' = "disconnect")
       => /\ reconnects' <= reconnects
          /\ Len(webSockets') = Len(webSockets)]_vars

(***************************************************************************)
(* The preload script (src/main/preload.js): the renderer reaches          *)
(* ipcRenderer only through window.electron.ipcRenderer, whose send and on *)
(* pass a call on when its channel is in their list and do nothing         *)
(* otherwise.                                                              *)
(***************************************************************************)
\* Lines 6-20: validChannels of send.
validChannelsSend ==
  {"prompt-capture:hide", "prompt-capture:resize", "prompt-capture:move",
   "prompt-capture:capture-screenshot", "prompt-capture:screenshot-result",
   "results-window:show", "results-window:close", "results-window:resize",
   "results-window:move", "results-window:set-prompt",
   "results-window:show-error", "vscode-bridge:send-message",
   "vscode-bridge:connect"}

\* Lines 26-36: validChannels of on.
validChannelsOn ==
  {"prompt-capture:show", "prompt-capture:capture-screenshot",
   "prompt-capture:screenshot-result", "results-window:show",
   "prompt-capture:add-highlight", "results-window:set-prompt",
   "results-window:display-error", "vscode-bridge:message",
   "vscode-bridge:error"}

\* Channels the components send on: StandalonePromptCapture.tsx lines 513, 96
\* and 533, ResultsWindow.tsx line 82.
RendererSends ==
  {"stategraph:process", "results-window:set-prompt", "prompt-capture:hide",
   "ws-bridge:connect"}

\* Channels the components subscribe to: ResultsWindow.tsx lines 78, 79 and
\* 127, AutomationProgress.tsx line 230.
RendererOns ==
  {"ws-bridge:message", "ws-bridge:error", "results-window:set-prompt",
   "automation:progress"}

PreloadUnchanged ==
  UNCHANGED <<resultsWindow, emitted, lastEvent, promptVars, bridgeVars,
              rpcVars, healthVars, clipVars, ocrVars, rendererVars>>

\* Lines 5-24: window.electron.ipcRenderer.send(channel, data).
RendererSend(channel) ==
  /\ sendsTried' = sendsTried \cup {channel}
  /\ passedSends' = IF channel \in validChannelsSend
                    THEN passedSends \cup {channel}
                    ELSE passedSends
  /\ UNCHANGED <<onsTried, listening>>
  /\ PreloadUnchanged

\* Lines 25-40: window.electron.ipcRenderer.on(channel, func).
RendererOn(channel) ==
  /\ onsTried' = onsTried \cup {channel}
  /\ listening' = IF channel \in validChannelsOn
                  THEN listening \cup {channel}
                  ELSE listening
  /\ UNCHANGED <<sendsTried, passedSends>>
  /\ PreloadUnchanged

InitPreload == Init /\ stateGraph

NextPreload ==
  \/ \E channel \in RendererSends : RendererSend(channel)
  \/ \E channel \in RendererOns : RendererOn(channel)

SpecPreload == InitPreload /\ [][NextPreload]_vars

\* C40: the channels the renderer uses to reach the controller and the
\* bridge (stategraph:process, ws-bridge:connect) and those it subscribes to
\* for results (ws-bridge:message, ws-bridge:error, automation:progress) pass
\* the preload lists: a send on them reaches ipcRenderer.send and a
\* subscription to them reaches ipcRenderer.on.
C40_UsedChannelsPassPreload ==
  /\ \A channel \in sendsTried \cap {"stategraph:process", "ws-bridge:connect"} :
       channel \in passedSends
  /\ \A channel \in
         onsTried \cap {"ws-bridge:message", "ws-bridge:error",
                        "automation:progress"} :
       channel \in listening

====
